---- MODULE Spec2Model ----
(***************************************************************************)
(* Fan-out-with-fallback orchestration of the web search tool              *)
(* (src/lib/tools/web-search.ts): one request fans out into at most ten    *)
(* concurrent per-query resolutions; each resolution calls the primary     *)
(* capability (Exa) and, when that returns no result, the fallback         *)
(* capability (SearXNG).                                                   *)
(*                                                                         *)
(* Strings that the code inspects are modelled by what the code reads of   *)
(* them: a URL is a sequence of tokens (a scheme, host labels, a           *)
(* delimiter), a query is an opaque string.  Array positions are the       *)
(* code's 0-based indexes; TLA+ sequences are 1-based, so element k of the *)
(* code is element k + 1 of the model.                                     *)
(***************************************************************************)
EXTENDS Integers, Sequences, FiniteSets, TLC

VARIABLES
    queries,      \* execute's argument `queries`
    maxResults,   \* execute's argument `maxResults` (<<>>: absent or empty)
    topics,       \* execute's argument `topics` (<<>>: absent or empty)
    launched,     \* how many elements the tasks map callback has been run on
    args,         \* per task: the arguments runSingleQuery was called with
    pc,           \* per task: where runSingleQuery stands
    log,          \* per task: progress events, capability calls and their replies, in order
    outcome,      \* per task: the value runSingleQuery returned
    response,     \* what execute returned
    urls,         \* retrieve: execute's argument `url`
    content_type, \* retrieve: execute's argument `content_type` (<<>>: absent or empty)
    include_summary, \* retrieve: execute's argument `include_summary` (<<>>: absent or empty)
    live_crawl,   \* retrieve: execute's argument `live_crawl` (<<>>: absent or empty)
    rlaunched,    \* retrieve: how many elements the url.map callback has been run on
    rargs,        \* retrieve: per URL, the arguments retrieveSingleUrl was called with
    rpc,          \* retrieve: per URL, where retrieveSingleUrl stands
    rlog,         \* retrieve: per URL, the tier calls and their replies, in order
    settled,      \* retrieve: per URL, the value retrieveSingleUrl returned
    settleOrder,  \* retrieve: the indexes of the URLs in the order they settled
    retrieved,    \* retrieve: what execute returned
    usAqi,        \* weather: the argument of toOpenWeatherAqi
    aqi,          \* weather: what toOpenWeatherAqi returned
    helperCall,   \* helpers: the function called and its arguments
    helperResult  \* helpers: what the function returned (<<>>: nothing yet)

searchVars == <<queries, maxResults, topics, launched, args, pc, log, outcome, response>>
retrieveVars ==
    <<urls, content_type, include_summary, live_crawl,
      rlaunched, rargs, rpc, rlog, settled, settleOrder, retrieved>>
requestVars == <<urls, content_type, include_summary, live_crawl>>
weatherVars == <<usAqi, aqi>>
helperVars == <<helperCall, helperResult>>
vars == <<searchVars, retrieveVars, weatherVars, helperVars>>

(***************************************************************************)
(* Program constants.                                                      *)
(***************************************************************************)
QueryLimit == 10
DefaultMaxResults == 10
MinMaxResults == 1
MaxMaxResults == 20
ExaMaxNumResults == 15
ImageLimit == 3

(***************************************************************************)
(* Bounds of the model.                                                    *)
(***************************************************************************)
MaxQueries == 2        \* queries of a request with unrestricted capabilities
MaxRecords == 2        \* records the capabilities return during one such request
                       \* (fewer than ImageLimit + 1: the image slice never cuts)
MaxBatchQueries == 11  \* queries of a long request
MaxOptions == 2        \* length of an option array where only the options are explored

Min(a, b) == IF a < b THEN a ELSE b
Max(a, b) == IF a > b THEN a ELSE b

\* Array.prototype.slice(0, n) for an integer n >= 0.
Slice(s, n) == SubSeq(s, 1, Min(Len(s), n))

Range(s) == {s[k] : k \in DOMAIN s}

SeqsUpTo(S, n) == UNION {[1..k -> S] : k \in 0..n}

(***************************************************************************)
(* URLs.  The empty sequence is the empty string (and stands for a url     *)
(* that is no string at all, which extractDomain treats alike).            *)
(***************************************************************************)
Schemes == {"http://", "https://"}
Delimiters == {"/", "?", "#"}

RECURSIVE HostRun(_)
\* The longest prefix free of delimiters: what [^/?#]+ captures when it is
\* followed by a delimiter or by the end of the string.
HostRun(s) ==
    IF s = <<>> \/ Head(s) \in Delimiters THEN <<>>
    ELSE <<Head(s)>> \o HostRun(Tail(s))

extractDomain(url) ==
    IF url = <<>> THEN <<>>
    ELSE IF Head(url) \in Schemes /\ HostRun(Tail(url)) # <<>>
         THEN HostRun(Tail(url))
         ELSE url

RECURSIVE DedupFromEither(_, _, _)
\* Faulty variant: a record is kept when its URL or its domain is unseen.
DedupFromEither(items, seenUrls, seenDomains) ==
    IF items = <<>> THEN <<>>
    ELSE LET item == Head(items)
             domain == extractDomain(item.url)
             isNewUrl == item.url \notin seenUrls
             isNewDomain == domain \notin seenDomains
         IN  IF isNewUrl \/ isNewDomain
             THEN <<item>> \o DedupFromEither(Tail(items), seenUrls \cup {item.url},
                                              seenDomains \cup {domain})
             ELSE DedupFromEither(Tail(items), seenUrls, seenDomains)

RECURSIVE DedupFrom(_, _, _)
DedupFrom(items, seenUrls, seenDomains) ==
    IF items = <<>> THEN <<>>
    ELSE LET item == Head(items)
             domain == extractDomain(item.url)
             isNewUrl == item.url \notin seenUrls
             isNewDomain == domain \notin seenDomains
         IN  IF isNewUrl /\ isNewDomain
             THEN <<item>> \o DedupFrom(Tail(items), seenUrls \cup {item.url},
                                        seenDomains \cup {domain})
             ELSE DedupFrom(Tail(items), seenUrls, seenDomains)

RECURSIVE DedupUrlFrom(_, _)
DedupUrlFrom(items, seenUrls) ==
    IF items = <<>> THEN <<>>
    ELSE IF Head(items).url \notin seenUrls
         THEN <<Head(items)>> \o DedupUrlFrom(Tail(items), seenUrls \cup {Head(items).url})
         ELSE DedupUrlFrom(Tail(items), seenUrls)

\* Faulty variant: records are told apart by URL alone.
deduplicateByUrl(items) == DedupUrlFrom(items, {})

deduplicateByDomainAndUrl(items) == DedupFrom(items, {}, {})

(***************************************************************************)
(* Texts.  A text is a sequence of runs of characters of one kind: blanks, *)
(* word characters, whole markup tags (three characters each), the         *)
(* characters of a tag that was cut, the characters of the ellipsis mark.  *)
(* No run is empty and no two neighbours are of the same kind.             *)
(***************************************************************************)
Blank == " "
Markup == {"<p>"}
CutTag == "<"
Run(c, n) == [c |-> c, n |-> n]
Width(c) == IF c \in Markup THEN 3 ELSE 1

RECURSIVE Length(_)
\* String.prototype.length
Length(s) == IF s = <<>> THEN 0 ELSE Head(s).n * Width(Head(s).c) + Length(Tail(s))

RECURSIVE Text(_)
\* The text made of the given runs.
Text(s) ==
    IF s = <<>> THEN <<>>
    ELSE IF Head(s).n = 0 THEN Text(Tail(s))
    ELSE LET rest == Text(Tail(s))
         IN  IF rest # <<>> /\ Head(rest).c = Head(s).c
             THEN <<Run(Head(s).c, Head(s).n + Head(rest).n)>> \o Tail(rest)
             ELSE <<Head(s)>> \o rest

RECURSIVE SliceText(_, _)
\* String.prototype.slice(0, n)
SliceText(s, n) ==
    IF s = <<>> \/ n <= 0 THEN <<>>
    ELSE LET h == Head(s)
             w == Width(h.c)
         IN  IF h.n * w <= n
             THEN <<h>> \o SliceText(Tail(s), n - h.n * w)
             ELSE Text(<<Run(h.c, n \div w), Run(CutTag, n % w)>>)

RECURSIVE TrimStart(_)
TrimStart(s) == IF s # <<>> /\ Head(s).c = Blank THEN TrimStart(Tail(s)) ELSE s

RECURSIVE TrimEnd(_)
TrimEnd(s) ==
    IF s # <<>> /\ s[Len(s)].c = Blank THEN TrimEnd(SubSeq(s, 1, Len(s) - 1)) ELSE s

\* String.prototype.trim
Trim(s) == TrimEnd(TrimStart(s))

\* replace(/\s+/g, ' ')
CollapseBlanks(s) == [k \in DOMAIN s |-> IF s[k].c = Blank THEN Run(Blank, 1) ELSE s[k]]

\* replace(/<[^>]+>/g, ' ')
TagToBlank(r) == IF r.c \in Markup THEN Run(Blank, r.n) ELSE r

stripHtml(html) == Trim(CollapseBlanks(Text([k \in DOMAIN html |-> TagToBlank(html[k])])))

\* text.startsWith('<')
StartsWithMarkup(s) == s # <<>> /\ Head(s).c \in Markup \cup {CutTag}

Word(n) == <<Run("w", n)>>

(***************************************************************************)
(* What the capabilities may answer.  A result or image record carries the *)
(* fields the orchestration reads.                                         *)
(***************************************************************************)
ResultUrls ==
    {<<"http://", "a">>, <<"http://", "a", "/">>, <<"a">>, <<"https://", "b">>}
ImageUrls == {<<>>, <<"http://", "a">>, <<"a">>}

SearchContentLimit == 1000

\* The texts of the result a capability returns for a URL: a text that is
\* too long, a content that is missing beside a snippet, short texts.
RawResult(u) ==
    [url |-> u,
     text |-> IF u = <<"http://", "a">> THEN Word(SearchContentLimit + 1)
              ELSE IF u = <<"a">> THEN <<>>
              ELSE Word(1),
     content |-> IF u = <<"https://", "b">> THEN Word(SearchContentLimit + 1)
                 ELSE IF u = <<"http://", "a", "/">> THEN Word(1)
                 ELSE <<>>,
     snippet |-> IF u = <<"http://", "a">> THEN Word(SearchContentLimit) \o <<Run(Blank, 2)>>
                 ELSE <<>>]
RawResults == {RawResult(u) : u \in ResultUrls}
RawImages == {[url |-> u] : u \in ImageUrls}

\* exa.searchAndContents: response.results, present or not, of at most n records.
ExaResponses(n) ==
    {[hasResults |-> TRUE, results |-> r] : r \in SeqsUpTo(RawResults, n)}
      \cup {[hasResults |-> FALSE, results |-> <<>>]}

\* The JSON body of SearXNG: data.results and the images of data.infoboxes
\* (already flattened), each an array or not, of at most n records together.
SearxngResponses(n) ==
    UNION {{[resultsIsArray |-> TRUE, results |-> r,
             infoboxesIsArray |-> TRUE, images |-> m] :
                m \in SeqsUpTo(RawImages, n - Len(r))} : r \in SeqsUpTo(RawResults, n)}
      \cup {[resultsIsArray |-> FALSE, results |-> <<>>,
             infoboxesIsArray |-> FALSE, images |-> <<>>]}

\* The answer of the primary capability in a long request, unless it raises.
BatchExaResponses ==
    {[hasResults |-> TRUE, results |-> <<RawResult(<<"http://", "a">>)>>]}

\* Faulty variant: the text of Exa is taken whole.
ToExaRecordUncut(result) == [url |-> result.url, content |-> result.text]
\* The map callback of searchExa.
ToExaRecord(result) ==
    [url |-> result.url, content |-> SliceText(result.text, SearchContentLimit)]
\* The map callback of searchSearxng.
ToResultRecord(result) ==
    [url |-> result.url,
     content |-> SliceText(IF result.content # <<>> THEN result.content ELSE result.snippet,
                           SearchContentLimit)]
ToImageRecord(img) == [url |-> img.url]
HasUrl(item) == item.url # <<>>

MapSeq(s, Op(_)) == [k \in DOMAIN s |-> Op(s[k])]

\* searchSearxng, from the parsed body on.
searchSearxng(data, limit) ==
    LET results == IF data.resultsIsArray
                   THEN MapSeq(Slice(data.results, limit), ToResultRecord)
                   ELSE <<>>
        images == IF data.infoboxesIsArray
                  THEN SelectSeq(MapSeq(Slice(data.images, ImageLimit), ToImageRecord), HasUrl)
                  ELSE <<>>
    IN  [results |-> deduplicateByDomainAndUrl(results),
         images |-> deduplicateByDomainAndUrl(images)]

\* searchExa, from the response on.
searchExa(resp) ==
    LET results == MapSeq(IF resp.hasResults THEN resp.results ELSE <<>>, ToExaRecord)
    IN  [results |-> deduplicateByDomainAndUrl(results), images |-> <<>>]

\* numResults of the Exa request.
ExaNumResults(limit) == Max(1, Min(limit, ExaMaxNumResults))
ExaCategory(topic) == IF topic = "news" THEN "news" ELSE "undefined"
\* Faulty variant: the topic is not translated.
SearxngCategoryGeneral(topic) == "general"
SearxngCategory(topic) == IF topic = "news" THEN "news" ELSE "general"

(***************************************************************************)
(* execute's per-query options: a || b || c takes the first operand that   *)
(* is neither undefined (past the end of the array) nor 0.                 *)
(***************************************************************************)
Truthy(arr, index) == index + 1 \in DOMAIN arr /\ arr[index + 1] # 0
Present(arr, index) == index + 1 \in DOMAIN arr

\* Faulty variant: the lower clamp is missing.
perQueryMaxNoFloor(arr, index) ==
    LET given == IF Truthy(arr, index) THEN arr[index + 1]
                 ELSE IF Truthy(arr, 0) THEN arr[1]
                 ELSE DefaultMaxResults
    IN  Min(given, MaxMaxResults)

perQueryMax(arr, index) ==
    LET given == IF Truthy(arr, index) THEN arr[index + 1]
                 ELSE IF Truthy(arr, 0) THEN arr[1]
                 ELSE DefaultMaxResults
    IN  Max(MinMaxResults, Min(given, MaxMaxResults))

\* Faulty variant: a missing entry takes the default at once.
topicByIndex(arr, index) ==
    IF Present(arr, index) THEN arr[index + 1] ELSE "general"

topicOf(arr, index) ==
    IF Present(arr, index) THEN arr[index + 1]
    ELSE IF Present(arr, 0) THEN arr[1]
    ELSE "general"

\* Faulty variant: the query list is not truncated.
uncappedQueries == queries
cappedQueries == Slice(queries, QueryLimit)
total == Len(cappedQueries)

(***************************************************************************)
(* Log entries, one shape for all three kinds.                             *)
(***************************************************************************)
Event(status, a, provider, resultsCount, imagesCount) ==
    [kind |-> "event", what |-> status, query |-> a.query, index |-> a.index,
     total |-> a.total, tag |-> provider, count |-> resultsCount, images |-> imagesCount]
Call(capability, query, limit, category) ==
    [kind |-> "call", what |-> capability, query |-> query, index |-> 0,
     total |-> 0, tag |-> category, count |-> limit, images |-> 0]
Reply(capability, a, raised, count, images) ==
    [kind |-> "reply", what |-> capability, query |-> a.query, index |-> 0,
     total |-> 0, tag |-> IF raised THEN "raised" ELSE "returned",
     count |-> count, images |-> images]

NoArgs == [query |-> "", index |-> -1, total |-> 0, maxResults |-> 0, topic |-> ""]
NoOutcome == [query |-> "", results |-> <<>>, images |-> <<>>, provider |-> "pending"]
NoResponse == [returned |-> FALSE, raised |-> FALSE, searches |-> <<>>]

\* Faulty variant: the catch block rethrows, and the promise of the query rejects.
rethrown(a) == [query |-> a.query, results |-> <<>>, images |-> <<>>, provider |-> "rejected"]
\* The value the catch block returns.
caughtOutcome(a) == [query |-> a.query, results |-> <<>>, images |-> <<>>, provider |-> "error"]

\* Promise.all rejects when one of its promises rejects.
Rejects(values) == \E k \in DOMAIN values : values[k].provider = "rejected"

IsFulfilledSearch(o) == o.provider # "error"
\* Faulty variant: failed resolutions are left out of the response.
Promise_allWithoutFailures(values) == SelectSeq(values, IsFulfilledSearch)
Promise_all(values) == values

\* Faulty variant: a single result is not enough for the primary to serve the query.
needsFallbackBelowTwo(payload) == Len(payload.results) < 2
\* The test that sends runSingleQuery to the fallback.
needsFallback(payload) == Len(payload.results) = 0

(***************************************************************************)
(* The retrieve tool (src/lib/tools/retrieve.ts).                          *)
(***************************************************************************)
ContentLimit == 8000
SummaryLimit == 240
EllipsisLength == 3
MaxUrls == 2           \* URLs of a retrieve request

\* Faulty variant: every non-empty URL passes the validation.
IsNonEmptyUrl(u) == u # <<>>
\* /^https?:\/\//i.test(url)
IsHttpUrl(u) == u # <<>> /\ Head(u) \in Schemes

NoSummary == <<Run("w", 2), Run(Blank, 1), Run("w", 7), Run(Blank, 1), Run("w", 9)>>
Ellipsis == <<Run("ellipsis", EllipsisLength)>>

\* Faulty variant: the summary is not cut.
summarizeWhole(text) == IF text = <<>> THEN NoSummary ELSE Trim(CollapseBlanks(text))
summarize(text) ==
    IF text = <<>> THEN NoSummary
    ELSE LET normalized == Trim(CollapseBlanks(text))
         IN  IF Length(normalized) > SummaryLimit
             THEN Text(SliceText(normalized, SummaryLimit - 1) \o Ellipsis)
             ELSE normalized

\* What a tier hands back: a text, which a JSON body need not make a string,
\* and a description (<<>>: none).
Texts == {<<>>, <<Run(Blank, 1)>>, Word(1), <<Run("<p>", 1)>>, <<Run("<p>", 1), Run("w", 1)>>}
Described(text, isString, description) ==
    [text |-> text, isString |-> isString, description |-> description]
Payload(text, isString) == Described(text, isString, <<>>)
NoPayload == Payload(<<>>, TRUE)

\* exa.getContents: the item found for the URL (or the first one), if any.
ExaContents ==
    {Payload(t, TRUE) : t \in {<<>>, <<Run(Blank, 1)>>, Word(1), Word(ContentLimit + 1)}}
\* fetchViaPlaywright: null, or the text and the description of the JSON body.
PlaywrightPayloads ==
    {Payload(t, TRUE) : t \in Texts \cup {Word(ContentLimit + 1)}}
      \cup {Payload(Word(1), FALSE), Described(Word(1), TRUE, Word(SummaryLimit + 1))}
\* fetchViaHttp: the status of the response, its body, and the content of the
\* description meta tag of the body (<<>>: no such tag).
HttpPages ==
    {[ok |-> o, html |-> h, description |-> <<>>] :
        o \in BOOLEAN, h \in {<<Run("<p>", 1)>>, <<Run("<p>", 1), Run("w", 1)>>}}
      \cup {[ok |-> TRUE, html |-> <<Run("<p>", 1), Run("w", ContentLimit + 1)>>,
             description |-> <<Run(Blank, 1), Run("w", SummaryLimit + 1)>>]}

\* payload?.text?.trim() as a condition; it throws on a text that is no string.
Usable(payload) == Trim(payload.text) # <<>>

exaLivecrawl(liveCrawl) ==
    IF liveCrawl = "never" THEN "never"
    ELSE IF liveCrawl = "preferred" THEN "preferred"
    ELSE "auto"

\* Faulty variant: a single preference is not handed to every URL.
liveCrawlByIndex(arr, index, urlCount) ==
    IF index + 1 \in DOMAIN arr THEN arr[index + 1] ELSE "preferred"
\* liveCrawls[index], with the default of retrieveSingleUrl for undefined.
liveCrawlOf(arr, index, urlCount) ==
    IF arr = <<>> THEN "preferred"
    ELSE IF Len(arr) = 1 THEN arr[1]
    ELSE IF index + 1 \in DOMAIN arr THEN arr[index + 1]
    ELSE "preferred"

\* contentTypes[index], with the default of retrieveSingleUrl for undefined.
contentTypeOf(arr, index, urlCount) ==
    IF arr = <<>> THEN "general"
    ELSE IF Len(arr) = 1 THEN arr[1]
    ELSE IF index + 1 \in DOMAIN arr THEN arr[index + 1]
    ELSE "general"

\* includeSummaries[index], with the default of retrieveSingleUrl for undefined.
includeSummaryOf(arr, index, urlCount) ==
    IF arr = <<>> THEN TRUE
    ELSE IF Len(arr) = 1 THEN arr[1]
    ELSE IF index + 1 \in DOMAIN arr THEN arr[index + 1]
    ELSE TRUE

\* The arguments of a call of retrieveSingleUrl.
RArgs(contentType, includeSummary, liveCrawl) ==
    [called |-> TRUE, contentType |-> contentType,
     includeSummary |-> includeSummary, liveCrawl |-> liveCrawl]
NoRArgs == [called |-> FALSE, contentType |-> "", includeSummary |-> FALSE, liveCrawl |-> ""]

Page(u, content, description) ==
    [isNull |-> FALSE, url |-> u, content |-> content, description |-> description]
NoPage == [isNull |-> TRUE, url |-> <<>>, content |-> <<>>, description |-> <<>>]

Extraction(u, source, result, error) ==
    [url |-> u, source |-> source, result |-> result, error |-> error]
NoExtraction == Extraction(<<>>, "pending", NoPage, "")
InvalidUrl == "Invalid URL. URL must start with http:// or https://"
AllFailed == "All extraction methods failed"

RCall(tier, mode) == [kind |-> "call", tier |-> tier, tag |-> mode, usable |-> FALSE]
RReply(tier, raised, usable) ==
    [kind |-> "reply", tier |-> tier,
     tag |-> IF raised THEN "raised" ELSE "returned", usable |-> usable]

NoRetrieved ==
    [returned |-> FALSE, urls |-> <<>>, results |-> <<>>, sources |-> <<>>,
     hasError |-> FALSE, error |-> <<>>, hasPartialErrors |-> FALSE,
     partial_errors |-> <<>>]

RetrieveFresh ==
    /\ rlaunched = 0
    /\ rargs = [i \in DOMAIN urls |-> NoRArgs]
    /\ rpc = [i \in DOMAIN urls |-> "idle"]
    /\ rlog = [i \in DOMAIN urls |-> <<>>]
    /\ settled = [i \in DOMAIN urls |-> NoExtraction]
    /\ settleOrder = <<>>
    /\ retrieved = NoRetrieved

\* toOpenWeatherAqi is not called.
NoArgument == [kind |-> "none"]
WeatherIdle == usAqi = NoArgument /\ aqi = <<>>

\* No helper function is called.
NoCall == [fn |-> "none"]
HelperIdle == helperCall = NoCall /\ helperResult = <<>>

\* The retrieve tool is not called.
RetrieveIdle ==
    /\ urls = <<>>
    /\ content_type = <<>>
    /\ include_summary = <<>>
    /\ live_crawl = <<>>
    /\ RetrieveFresh

(***************************************************************************)
(* The state after the tool is called with a request.                      *)
(***************************************************************************)
QueryName(i) == "q" \o ToString(i)
QueriesOf(n) == [i \in 1..n |-> QueryName(i)]
CapValues == {-1, 0, 1, 2, 21}
TopicValues == {"general", "news"}

Fresh ==
    /\ launched = 0
    /\ args = [i \in DOMAIN queries |-> NoArgs]
    /\ pc = [i \in DOMAIN queries |-> "idle"]
    /\ log = [i \in DOMAIN queries |-> <<>>]
    /\ outcome = [i \in DOMAIN queries |-> NoOutcome]
    /\ response = NoResponse

\* A short request; an option array of one element applies to every query.
Init ==
    /\ queries \in {QueriesOf(n) : n \in 1..MaxQueries}
    /\ maxResults \in {<<>>, <<1>>}
    /\ topics \in {<<>>, <<"news">>}
    /\ Fresh
    /\ RetrieveIdle
    /\ WeatherIdle
    /\ HelperIdle

\* A long request.
InitBatch ==
    /\ queries \in {QueriesOf(n) : n \in 1..MaxBatchQueries}
    /\ maxResults = <<>>
    /\ topics = <<>>
    /\ Fresh
    /\ RetrieveIdle
    /\ WeatherIdle
    /\ HelperIdle

\* A request with any option arrays.
InitLaunch ==
    /\ queries \in {QueriesOf(n) : n \in 1..(MaxOptions + 1)}
    /\ maxResults \in SeqsUpTo(CapValues, MaxOptions)
    /\ topics \in SeqsUpTo(TopicValues, MaxOptions)
    /\ Fresh
    /\ RetrieveIdle
    /\ WeatherIdle
    /\ HelperIdle

(***************************************************************************)
(* runSingleQuery up to its first await: the started event and the Exa     *)
(* request.  The map callback runs on the elements in order.               *)
(***************************************************************************)
Start(i) ==
    /\ response = NoResponse
    /\ i = launched + 1
    /\ i <= total
    /\ LET a == [query |-> cappedQueries[i], index |-> i - 1, total |-> total,
                 maxResults |-> perQueryMax(maxResults, i - 1),
                 topic |-> topicOf(topics, i - 1)]
       IN  /\ args' = [args EXCEPT ![i] = a]
           /\ log' = [log EXCEPT ![i] =
                  <<Event("started", a, "undefined", 0, 0),
                    Call("exa", a.query, ExaNumResults(a.maxResults), ExaCategory(a.topic))>>]
    /\ launched' = i
    /\ pc' = [pc EXCEPT ![i] = "exa"]
    /\ UNCHANGED <<queries, maxResults, topics, outcome, response>>
    /\ UNCHANGED <<retrieveVars, weatherVars, helperVars>>

\* Faulty variant: the records of a query are also told apart from the records
\* the other queries have returned.
CompletedAcrossQueries(i, provider, payload, reply) ==
    LET seen == UNION {{outcome[j].results[k].url : k \in DOMAIN outcome[j].results} :
                          j \in DOMAIN outcome \ {i}}
        IsNew(item) == item.url \notin seen
        results == SelectSeq(payload.results, IsNew)
    IN  /\ log' = [log EXCEPT ![i] = @ \o
                <<reply, Event("completed", args[i], provider,
                               Len(results), Len(payload.images))>>]
        /\ outcome' = [outcome EXCEPT ![i] =
                [query |-> args[i].query, results |-> results,
                 images |-> payload.images, provider |-> provider]]
        /\ pc' = [pc EXCEPT ![i] = "done"]

\* The completed event and the return of the try block.
Completed(i, provider, payload, reply) ==
    /\ log' = [log EXCEPT ![i] = @ \o
           <<reply, Event("completed", args[i], provider,
                          Len(payload.results), Len(payload.images))>>]
    /\ outcome' = [outcome EXCEPT ![i] =
           [query |-> args[i].query, results |-> payload.results,
            images |-> payload.images, provider |-> provider]]
    /\ pc' = [pc EXCEPT ![i] = "done"]

\* Faulty variant: the catch block emits no event.
CaughtSilently(i, reply) ==
    /\ log' = [log EXCEPT ![i] = @ \o <<reply>>]
    /\ outcome' = [outcome EXCEPT ![i] = caughtOutcome(args[i])]
    /\ pc' = [pc EXCEPT ![i] = "done"]

\* The catch block.
Caught(i, reply) ==
    /\ log' = [log EXCEPT ![i] = @ \o <<reply, Event("error", args[i], "undefined", 0, 0)>>]
    /\ outcome' = [outcome EXCEPT ![i] = caughtOutcome(args[i])]
    /\ pc' = [pc EXCEPT ![i] = "done"]

\* Faulty variant: a continuation runs as soon as its own query is started.
ResumableOnceStarted(i) == i \in 1..launched /\ response = NoResponse

\* The continuations run once the synchronous part of execute is over.
Resumable(i) == i \in 1..total /\ launched = total /\ response = NoResponse

ExaReturns(i, resp) ==
    /\ Resumable(i)
    /\ pc[i] = "exa"
    /\ LET payload == searchExa(resp)
           reply == Reply("exa", args[i], FALSE, Len(resp.results), 0)
       IN  IF needsFallback(payload)
           THEN /\ log' = [log EXCEPT ![i] = @ \o
                       <<reply, Call("searxng", args[i].query, args[i].maxResults,
                                     SearxngCategory(args[i].topic))>>]
                /\ pc' = [pc EXCEPT ![i] = "searxng"]
                /\ UNCHANGED outcome
           ELSE Completed(i, "exa", payload, reply)
    /\ UNCHANGED <<queries, maxResults, topics, launched, args, response>>
    /\ UNCHANGED <<retrieveVars, weatherVars, helperVars>>

\* Faulty variant: an exception of the primary sends the query to the fallback.
ExaRaisesFallsBack(i) ==
    /\ Resumable(i)
    /\ pc[i] = "exa"
    /\ log' = [log EXCEPT ![i] = @ \o
           <<Reply("exa", args[i], TRUE, 0, 0),
             Call("searxng", args[i].query, args[i].maxResults,
                  SearxngCategory(args[i].topic))>>]
    /\ pc' = [pc EXCEPT ![i] = "searxng"]
    /\ UNCHANGED <<queries, maxResults, topics, launched, args, outcome, response>>
    /\ UNCHANGED <<retrieveVars, weatherVars, helperVars>>

ExaRaises(i) ==
    /\ Resumable(i)
    /\ pc[i] = "exa"
    /\ Caught(i, Reply("exa", args[i], TRUE, 0, 0))
    /\ UNCHANGED <<queries, maxResults, topics, launched, args, response>>
    /\ UNCHANGED <<retrieveVars, weatherVars, helperVars>>

\* Faulty variant: a fallback without results is a failure of the query.
SearxngReturnsOrFails(i, data) ==
    /\ Resumable(i)
    /\ pc[i] = "searxng"
    /\ IF searchSearxng(data, args[i].maxResults).results = <<>>
       THEN Caught(i, Reply("searxng", args[i], FALSE, Len(data.results), Len(data.images)))
       ELSE Completed(i, "searxng", searchSearxng(data, args[i].maxResults),
                      Reply("searxng", args[i], FALSE, Len(data.results), Len(data.images)))
    /\ UNCHANGED <<queries, maxResults, topics, launched, args, response>>
    /\ UNCHANGED <<retrieveVars, weatherVars, helperVars>>

SearxngReturns(i, data) ==
    /\ Resumable(i)
    /\ pc[i] = "searxng"
    /\ Completed(i, "searxng", searchSearxng(data, args[i].maxResults),
                 Reply("searxng", args[i], FALSE, Len(data.results), Len(data.images)))
    /\ UNCHANGED <<queries, maxResults, topics, launched, args, response>>
    /\ UNCHANGED <<retrieveVars, weatherVars, helperVars>>

\* Faulty variant: searchSearxng swallows its exception and returns nothing.
SearxngRaisesSwallowed(i) ==
    /\ Resumable(i)
    /\ pc[i] = "searxng"
    /\ Completed(i, "searxng", [results |-> <<>>, images |-> <<>>],
                 Reply("searxng", args[i], TRUE, 0, 0))
    /\ UNCHANGED <<queries, maxResults, topics, launched, args, response>>
    /\ UNCHANGED <<retrieveVars, weatherVars, helperVars>>

SearxngRaises(i) ==
    /\ Resumable(i)
    /\ pc[i] = "searxng"
    /\ Caught(i, Reply("searxng", args[i], TRUE, 0, 0))
    /\ UNCHANGED <<queries, maxResults, topics, launched, args, response>>
    /\ UNCHANGED <<retrieveVars, weatherVars, helperVars>>

\* Faulty variant: execute returns as soon as one resolution has failed.
ReturnEarly ==
    /\ launched = total
    /\ response = NoResponse
    /\ \/ \A i \in 1..total : pc[i] = "done"
       \/ \E i \in 1..total : pc[i] = "done" /\ outcome[i].provider = "error"
    /\ response' = [returned |-> TRUE, raised |-> FALSE,
                    searches |-> Promise_all([i \in 1..total |-> outcome[i]])]
    /\ UNCHANGED <<queries, maxResults, topics, launched, args, pc, log, outcome>>
    /\ UNCHANGED <<retrieveVars, weatherVars, helperVars>>

\* await Promise.all(tasks) and the return of execute.
Return ==
    /\ launched = total
    /\ response = NoResponse
    /\ \A i \in 1..total : pc[i] = "done"
    /\ LET tasks == [i \in 1..total |-> outcome[i]]
       IN  response' = IF Rejects(tasks)
                       THEN [returned |-> FALSE, raised |-> TRUE, searches |-> <<>>]
                       ELSE [returned |-> TRUE, raised |-> FALSE,
                             searches |-> Promise_all(tasks)]
    /\ UNCHANGED <<queries, maxResults, topics, launched, args, pc, log, outcome>>
    /\ UNCHANGED <<retrieveVars, weatherVars, helperVars>>

RECURSIVE Returned(_)
\* The records the replies of a log hold.
Returned(l) ==
    IF l = <<>> THEN 0
    ELSE (IF Head(l).kind = "reply" THEN Head(l).count + Head(l).images ELSE 0)
         + Returned(Tail(l))

RECURSIVE SumOver(_, _)
SumOver(f, S) ==
    IF S = {} THEN 0
    ELSE LET x == CHOOSE y \in S : TRUE IN f[x] + SumOver(f, S \ {x})

Remaining == MaxRecords - SumOver([i \in DOMAIN log |-> Returned(log[i])], DOMAIN log)

Launch == \E i \in DOMAIN queries : Start(i)

Next ==
    \/ Launch
    \/ \E i \in DOMAIN queries, resp \in ExaResponses(Remaining) : ExaReturns(i, resp)
    \/ \E i \in DOMAIN queries : ExaRaises(i)
    \/ \E i \in DOMAIN queries, data \in SearxngResponses(Remaining) : SearxngReturns(i, data)
    \/ \E i \in DOMAIN queries : SearxngRaises(i)
    \/ Return

Spec == Init /\ [][Next]_vars

NextBatch ==
    \/ Launch
    \/ \E i \in DOMAIN queries, resp \in BatchExaResponses : ExaReturns(i, resp)
    \/ \E i \in DOMAIN queries : ExaRaises(i)
    \/ Return

SpecBatch == InitBatch /\ [][NextBatch]_vars

SpecLaunch == InitLaunch /\ [][Launch]_vars

(***************************************************************************)
(* retrieve: retrieveSingleUrl and execute.                                *)
(***************************************************************************)
UrlValues == {<<"https://", "b">>, <<"http://", "c">>, <<"a">>}

SearchIdle == queries = <<>> /\ maxResults = <<>> /\ topics = <<>> /\ Fresh

\* The requests: lists of different URLs.
UrlLists == {s \in SeqsUpTo(UrlValues, MaxUrls) : \A j, k \in DOMAIN s : j # k => s[j] # s[k]}

\* live_crawl: absent, one preference for every URL, one preference per URL.
LiveCrawlLists == {<<>>, <<"never">>, <<"auto", "never">>}

InitRetrieve ==
    /\ urls \in UrlLists
    /\ content_type = <<>>
    /\ include_summary = <<>>
    /\ live_crawl \in LiveCrawlLists
    /\ RetrieveFresh
    /\ SearchIdle
    /\ WeatherIdle
    /\ HelperIdle

\* retrieveSingleUrl returns.
Finish(i, entries, extraction) ==
    /\ rlog' = [rlog EXCEPT ![i] = @ \o entries]
    /\ settled' = [settled EXCEPT ![i] = extraction]
    /\ settleOrder' = Append(settleOrder, i)
    /\ rpc' = [rpc EXCEPT ![i] = "done"]

\* Faulty variant: every failed tier is followed by the direct fetch.
AdvanceToLast(i, reply, tier) ==
    /\ rlog' = [rlog EXCEPT ![i] = @ \o <<reply, RCall("http", "")>>]
    /\ rpc' = [rpc EXCEPT ![i] = "http"]
    /\ UNCHANGED <<settled, settleOrder>>

\* retrieveSingleUrl goes on to the next tier.
Advance(i, reply, tier) ==
    /\ rlog' = [rlog EXCEPT ![i] = @ \o <<reply, RCall(tier, "")>>]
    /\ rpc' = [rpc EXCEPT ![i] = tier]
    /\ UNCHANGED <<settled, settleOrder>>

\* retrieveSingleUrl up to its first await: the validation and the Exa request.
RStart(i) ==
    /\ retrieved = NoRetrieved
    /\ i = rlaunched + 1
    /\ i <= Len(urls)
    /\ rlaunched' = i
    /\ LET urlCount == Len(urls)
           contentType == contentTypeOf(content_type, i - 1, urlCount)
           includeSummary == includeSummaryOf(include_summary, i - 1, urlCount)
           liveCrawl == liveCrawlOf(live_crawl, i - 1, urlCount)
       IN  /\ rargs' = [rargs EXCEPT ![i] = RArgs(contentType, includeSummary, liveCrawl)]
           /\ IF ~IsHttpUrl(urls[i])
              THEN Finish(i, <<>>, Extraction(urls[i], "validation", NoPage, InvalidUrl))
              ELSE /\ rlog' = [rlog EXCEPT ![i] = <<RCall("exa", exaLivecrawl(liveCrawl))>>]
                   /\ rpc' = [rpc EXCEPT ![i] = "exa"]
                   /\ UNCHANGED <<settled, settleOrder>>
    /\ UNCHANGED <<requestVars, retrieved>>
    /\ UNCHANGED <<searchVars, weatherVars, helperVars>>

RResumable(i) == i \in DOMAIN urls /\ rlaunched = Len(urls) /\ retrieved = NoRetrieved

\* exa.getContents resolves: lines 129-147.
RExaReturns(i, match) ==
    /\ RResumable(i)
    /\ rpc[i] = "exa"
    /\ IF Usable(match)
       THEN Finish(i, <<RReply("exa", FALSE, TRUE)>>,
                   Extraction(urls[i], "exa",
                              Page(urls[i], match.text, summarize(match.text)), ""))
       ELSE Advance(i, RReply("exa", FALSE, FALSE), "playwright")
    /\ UNCHANGED <<requestVars, rlaunched, rargs, retrieved>>
    /\ UNCHANGED <<searchVars, weatherVars, helperVars>>

\* Faulty variant: an exception of Exa is answered by asking Exa again, up to
\* three more times.
RExaRaisesRetries(i) ==
    /\ RResumable(i)
    /\ rpc[i] = "exa"
    /\ IF Len(rlog[i]) < 7
       THEN /\ rlog' = [rlog EXCEPT ![i] = @ \o <<RReply("exa", TRUE, FALSE), RCall("exa", "")>>]
            /\ UNCHANGED <<rpc, settled, settleOrder>>
       ELSE Advance(i, RReply("exa", TRUE, FALSE), "playwright")
    /\ UNCHANGED <<requestVars, rlaunched, rargs, retrieved>>
    /\ UNCHANGED <<searchVars, weatherVars, helperVars>>

\* exa.getContents rejects: the inner catch, lines 148-150.
RExaRaises(i) ==
    /\ RResumable(i)
    /\ rpc[i] = "exa"
    /\ Advance(i, RReply("exa", TRUE, FALSE), "playwright")
    /\ UNCHANGED <<requestVars, rlaunched, rargs, retrieved>>
    /\ UNCHANGED <<searchVars, weatherVars, helperVars>>

\* fetchViaPlaywright resolves with the body's text, or with null for a
\* response that is not ok (no text): lines 153-171; a text that is no string
\* has no trim method, and the TypeError ends in the outer catch, lines 200-208.
PlaywrightReturns(i, payload) ==
    /\ RResumable(i)
    /\ rpc[i] = "playwright"
    /\ IF ~payload.isString
       THEN Finish(i, <<RReply("playwright", FALSE, FALSE)>>,
                   Extraction(urls[i], "error", NoPage, "TypeError"))
       ELSE IF Usable(payload)
       THEN LET textContent == IF StartsWithMarkup(payload.text)
                               THEN stripHtml(payload.text)
                               ELSE payload.text
            IN  Finish(i, <<RReply("playwright", FALSE, TRUE)>>,
                       Extraction(urls[i], "playwright",
                                  Page(urls[i], SliceText(textContent, ContentLimit),
                                       IF payload.description # <<>>
                                       THEN payload.description
                                       ELSE summarize(textContent)), ""))
       ELSE Advance(i, RReply("playwright", FALSE, FALSE), "http")
    /\ UNCHANGED <<requestVars, rlaunched, rargs, retrieved>>
    /\ UNCHANGED <<searchVars, weatherVars, helperVars>>

\* Faulty variant: the exception of the render service ends the resolution.
PlaywrightRaisesEscapes(i) ==
    /\ RResumable(i)
    /\ rpc[i] = "playwright"
    /\ Finish(i, <<RReply("playwright", TRUE, FALSE)>>,
              Extraction(urls[i], "error", NoPage, "Error"))
    /\ UNCHANGED <<requestVars, rlaunched, rargs, retrieved>>
    /\ UNCHANGED <<searchVars, weatherVars, helperVars>>

\* fetch or response.json() throws inside fetchViaPlaywright: null, lines 66-68.
PlaywrightRaises(i) ==
    /\ RResumable(i)
    /\ rpc[i] = "playwright"
    /\ Advance(i, RReply("playwright", TRUE, FALSE), "http")
    /\ UNCHANGED <<requestVars, rlaunched, rargs, retrieved>>
    /\ UNCHANGED <<searchVars, weatherVars, helperVars>>

\* fetchViaHttp, from the response on.
fetchViaHttp(page) ==
    IF page.ok
    THEN Described(SliceText(stripHtml(page.html), ContentLimit), TRUE, Trim(page.description))
    ELSE NoPayload

\* Faulty variant: the direct fetch ends in a page whatever its text.
HttpReturnsAlwaysPage(i, page) ==
    /\ RResumable(i)
    /\ rpc[i] = "http"
    /\ Finish(i, <<RReply("http", FALSE, Usable(fetchViaHttp(page)))>>,
              Extraction(urls[i], "http",
                         Page(urls[i], fetchViaHttp(page).text, fetchViaHttp(page).description), ""))
    /\ UNCHANGED <<requestVars, rlaunched, rargs, retrieved>>
    /\ UNCHANGED <<searchVars, weatherVars, helperVars>>

\* fetchViaHttp resolves: lines 174-199.
HttpReturns(i, page) ==
    /\ RResumable(i)
    /\ rpc[i] = "http"
    /\ LET httpPayload == fetchViaHttp(page)
       IN  IF Usable(httpPayload)
           THEN Finish(i, <<RReply("http", FALSE, TRUE)>>,
                       Extraction(urls[i], "http",
                                  Page(urls[i], httpPayload.text,
                                       IF httpPayload.description # <<>>
                                       THEN httpPayload.description
                                       ELSE summarize(httpPayload.text)), ""))
           ELSE Finish(i, <<RReply("http", FALSE, FALSE)>>,
                       Extraction(urls[i], "error", NoPage, AllFailed))
    /\ UNCHANGED <<requestVars, rlaunched, rargs, retrieved>>
    /\ UNCHANGED <<searchVars, weatherVars, helperVars>>

\* fetch or response.text() throws inside fetchViaHttp: null, lines 94-96.
HttpRaises(i) ==
    /\ RResumable(i)
    /\ rpc[i] = "http"
    /\ Finish(i, <<RReply("http", TRUE, FALSE)>>,
              Extraction(urls[i], "error", NoPage, AllFailed))
    /\ UNCHANGED <<requestVars, rlaunched, rargs, retrieved>>
    /\ UNCHANGED <<searchVars, weatherVars, helperVars>>

\* Faulty variant: the settled promises are taken in the order they settled.
Promise_inSettleOrder(values) ==
    [k \in DOMAIN values |-> [status |-> "fulfilled", value |-> values[settleOrder[k]]]]
\* Promise.allSettled: every promise of retrieveSingleUrl fulfils, and the
\* array of the settled results follows the array of the promises.
Promise_allSettled(values) ==
    [k \in DOMAIN values |-> [status |-> "fulfilled", value |-> values[k]]]

\* Faulty variant: every failure is reported with the default message.
defaultMessage(v) == "Failed to extract content"
\* error || 'Failed to extract content', line 277.
errorMessage(v) == IF v.error # "" THEN v.error ELSE "Failed to extract content"

NoneCollected == [results |-> <<>>, sources |-> <<>>, errors |-> <<>>]

RECURSIVE PartitionNewestFirst(_, _, _)
\* Faulty variant: a page is put in front of the pages collected so far.
PartitionNewestFirst(settledResults, k, acc) ==
    IF k > Len(settledResults) THEN acc
    ELSE LET v == settledResults[k].value
         IN  IF settledResults[k].status = "fulfilled" /\ ~v.result.isNull
             THEN PartitionNewestFirst(settledResults, k + 1,
                            [acc EXCEPT !.results = <<v.result>> \o @,
                                        !.sources = Append(@, v.source)])
             ELSE PartitionNewestFirst(settledResults, k + 1,
                            [acc EXCEPT !.errors = Append(@, <<urls[k], errorMessage(v)>>),
                                        !.sources = Append(@, "error")])

RECURSIVE Partition(_, _, _)
\* settledResults.forEach, from element k on.
Partition(settledResults, k, acc) ==
    IF k > Len(settledResults) THEN acc
    ELSE LET v == settledResults[k].value
         IN  IF settledResults[k].status = "fulfilled" /\ ~v.result.isNull
             THEN Partition(settledResults, k + 1,
                            [acc EXCEPT !.results = Append(@, v.result),
                                        !.sources = Append(@, v.source)])
             ELSE Partition(settledResults, k + 1,
                            [acc EXCEPT !.errors = Append(@, <<urls[k], errorMessage(v)>>),
                                        !.sources = Append(@, "error")])

RECURSIVE PartitionKeepingSource(_, _, _)
PartitionKeepingSource(settledResults, k, acc) ==
    IF k > Len(settledResults) THEN acc
    ELSE LET v == settledResults[k].value
         IN  IF ~v.result.isNull
             THEN PartitionKeepingSource(settledResults, k + 1,
                            [acc EXCEPT !.results = Append(@, v.result),
                                        !.sources = Append(@, v.source)])
             ELSE PartitionKeepingSource(settledResults, k + 1,
                            [acc EXCEPT !.errors = Append(@, <<urls[k], errorMessage(v)>>),
                                        !.sources = Append(@, v.source)])

\* Faulty variant: a failed URL keeps the source its resolver gave it.
forEachKeepingSource(settledResults) == PartitionKeepingSource(settledResults, 1, NoneCollected)
\* settledResults.forEach, lines 270-284.
forEach(settledResults) == Partition(settledResults, 1, NoneCollected)

\* The response of the catch block of execute, lines 305-313.
caughtResponse(message) ==
    [returned |-> TRUE, urls |-> urls, results |-> <<>>, sources |-> <<>>,
     hasError |-> TRUE, error |-> <<<<<<>>, message>>>>,
     hasPartialErrors |-> FALSE, partial_errors |-> <<>>]

\* Faulty variant: one failed URL fails the whole batch.
AggregateAllOrNothing(settledResults) ==
    LET acc == forEach(settledResults)
    IN  IF Len(acc.errors) > 0
        THEN caughtResponse("Failed to retrieve content")
        ELSE [returned |-> TRUE, urls |-> urls, results |-> acc.results,
              sources |-> acc.sources, hasError |-> FALSE, error |-> <<>>,
              hasPartialErrors |-> FALSE, partial_errors |-> <<>>]
\* The response when no URL has a page, lines 288-296.
failureResponse(acc) ==
    [returned |-> TRUE, urls |-> urls, results |-> <<>>, sources |-> acc.sources,
     hasError |-> TRUE,
     error |-> IF Len(acc.errors) > 0 THEN acc.errors
               ELSE <<<<<<>>, "Failed to retrieve any content">>>>,
     hasPartialErrors |-> FALSE, partial_errors |-> <<>>]

\* Faulty variant: the failures of a batch with a page are not reported.
successResponseWithoutErrors(acc) ==
    [returned |-> TRUE, urls |-> urls, results |-> acc.results,
     sources |-> acc.sources, hasError |-> FALSE, error |-> <<>>,
     hasPartialErrors |-> FALSE, partial_errors |-> <<>>]
\* The response when some URL has a page, lines 298-304.
successResponse(acc) ==
    [returned |-> TRUE, urls |-> urls, results |-> acc.results,
     sources |-> acc.sources, hasError |-> FALSE, error |-> <<>>,
     hasPartialErrors |-> Len(acc.errors) > 0, partial_errors |-> acc.errors]

\* Lines 266-304.
Aggregate(settledResults) ==
    LET acc == forEach(settledResults)
    IN  IF Len(acc.results) = 0 THEN failureResponse(acc) ELSE successResponse(acc)

\* Faulty variant: execute has a deadline of its own, and returns with what
\* the resolvers have returned by then.
RReturnAtDeadline ==
    /\ rlaunched = Len(urls)
    /\ retrieved = NoRetrieved
    /\ retrieved' = Aggregate(Promise_allSettled(settled))
    /\ UNCHANGED <<requestVars, rlaunched, rargs, rpc, rlog, settled, settleOrder>>
    /\ UNCHANGED <<searchVars, weatherVars, helperVars>>

\* await Promise.allSettled(...) and the rest of execute.
RReturn ==
    /\ rlaunched = Len(urls)
    /\ retrieved = NoRetrieved
    /\ \A i \in DOMAIN urls : rpc[i] = "done"
    /\ retrieved' = Aggregate(Promise_allSettled(settled))
    /\ UNCHANGED <<requestVars, rlaunched, rargs, rpc, rlog, settled, settleOrder>>
    /\ UNCHANGED <<searchVars, weatherVars, helperVars>>

RLaunch == \E i \in DOMAIN urls : RStart(i)

NextRetrieve ==
    \/ RLaunch
    \/ \E i \in DOMAIN urls, match \in ExaContents : RExaReturns(i, match)
    \/ \E i \in DOMAIN urls : RExaRaises(i)
    \/ \E i \in DOMAIN urls, payload \in PlaywrightPayloads : PlaywrightReturns(i, payload)
    \/ \E i \in DOMAIN urls : PlaywrightRaises(i)
    \/ \E i \in DOMAIN urls, page \in HttpPages : HttpReturns(i, page)
    \/ \E i \in DOMAIN urls : HttpRaises(i)
    \/ RReturn

SpecRetrieve == InitRetrieve /\ [][NextRetrieve]_vars

\* The option arrays of a request: absent, one value, one value per URL.
ContentTypeLists == {<<>>, <<"twitter">>, <<"youtube", "twitter">>}
IncludeSummaryLists == {<<>>, <<FALSE>>, <<FALSE, TRUE>>}
LiveCrawlValues == {"never", "auto", "preferred"}

InitRetrieveLaunch ==
    /\ urls \in UrlLists
    /\ content_type \in ContentTypeLists
    /\ include_summary \in IncludeSummaryLists
    /\ live_crawl \in SeqsUpTo(LiveCrawlValues, MaxOptions)
    /\ RetrieveFresh
    /\ SearchIdle
    /\ WeatherIdle
    /\ HelperIdle

SpecRetrieveLaunch == InitRetrieveLaunch /\ [][RLaunch]_vars

(***************************************************************************)
(* The two tools side by side: a request to search or a request to         *)
(* retrieve.                                                               *)
(***************************************************************************)
\* A request to search without option arrays.
InitSearchPlain ==
    /\ queries \in {QueriesOf(n) : n \in 1..MaxQueries}
    /\ maxResults = <<>>
    /\ topics = <<>>
    /\ Fresh
    /\ RetrieveIdle
    /\ WeatherIdle
    /\ HelperIdle

\* A request to retrieve without option arrays.
InitRetrievePlain ==
    /\ urls \in UrlLists
    /\ content_type = <<>>
    /\ include_summary = <<>>
    /\ live_crawl = <<>>
    /\ RetrieveFresh
    /\ SearchIdle
    /\ WeatherIdle
    /\ HelperIdle

InitTools == InitSearchPlain \/ InitRetrievePlain

\* The answers of the search capabilities in a request to the tools: no
\* result, or one.
PlainExaResponses ==
    {[hasResults |-> FALSE, results |-> <<>>],
     [hasResults |-> TRUE, results |-> <<RawResult(<<"http://", "a">>)>>]}
PlainSearxngResponses ==
    {[resultsIsArray |-> FALSE, results |-> <<>>,
      infoboxesIsArray |-> FALSE, images |-> <<>>],
     [resultsIsArray |-> TRUE, results |-> <<RawResult(<<"https://", "b">>)>>,
      infoboxesIsArray |-> TRUE, images |-> <<[url |-> <<"a">>]>>]}

NextSearchPlain ==
    \/ Launch
    \/ \E i \in DOMAIN queries, resp \in PlainExaResponses : ExaReturns(i, resp)
    \/ \E i \in DOMAIN queries : ExaRaises(i)
    \/ \E i \in DOMAIN queries, data \in PlainSearxngResponses : SearxngReturns(i, data)
    \/ \E i \in DOMAIN queries : SearxngRaises(i)
    \/ Return

NextTools == NextSearchPlain \/ NextRetrieve

SpecTools == InitTools /\ [][NextTools]_vars

\* The calls of item i settle: its capability returns or raises, and the
\* continuation of its resolver runs.
QueryStep(i) ==
    \/ \E resp \in PlainExaResponses : ExaReturns(i, resp)
    \/ ExaRaises(i)
    \/ \E data \in PlainSearxngResponses : SearxngReturns(i, data)
    \/ SearxngRaises(i)

UrlStep(i) ==
    \/ \E match \in ExaContents : RExaReturns(i, match)
    \/ RExaRaises(i)
    \/ \E payload \in PlaywrightPayloads : PlaywrightReturns(i, payload)
    \/ PlaywrightRaises(i)
    \/ \E page \in HttpPages : HttpReturns(i, page)
    \/ HttpRaises(i)

\* The event loop runs every continuation that is ready: the map callbacks
\* and the code after the awaits.
LoopFairness ==
    /\ WF_vars(Launch)
    /\ WF_vars(RLaunch)
    /\ WF_vars(Return)
    /\ WF_vars(RReturn)

\* Every capability call settles.
SpecFair ==
    /\ SpecTools
    /\ LoopFairness
    /\ \A i \in 1..MaxQueries : WF_vars(QueryStep(i))
    /\ \A i \in 1..MaxUrls : WF_vars(UrlStep(i))

\* Every capability call settles but, maybe, those of the first item.
SpecStall ==
    /\ SpecTools
    /\ LoopFairness
    /\ \A i \in 2..MaxQueries : WF_vars(QueryStep(i))
    /\ \A i \in 2..MaxUrls : WF_vars(UrlStep(i))

(***************************************************************************)
(* The air quality conversion of the weather tool.  A number is counted in *)
(* steps of 1/Grid.                                                        *)
(***************************************************************************)
MaxAqi == 250
Grid == 2

Null == [kind |-> "null"]
Undefined == [kind |-> "undefined"]
NaN == [kind |-> "NaN"]
Infinity == [kind |-> "Infinity"]
MinusInfinity == [kind |-> "-Infinity"]
Num(n) == [kind |-> "number", n |-> n]

\* usAqi == null
IsNullish(x) == x.kind \in {"null", "undefined"}

\* Number.isNaN(usAqi)
IsNaN(x) == x.kind = "NaN"

\* usAqi <= limit
AtMost(x, limit) ==
    CASE x.kind = "-Infinity" -> TRUE
      [] x.kind = "Infinity" -> FALSE
      [] OTHER -> x.n <= limit * Grid

\* Faulty variant: the limits belong to the next class.
toOpenWeatherAqiBelow(x) ==
    IF IsNullish(x) \/ IsNaN(x) THEN 0
    ELSE IF ~AtMost(x, 50) THEN
        IF ~AtMost(x, 100) THEN
            IF ~AtMost(x, 150) THEN
                IF ~AtMost(x, 200) THEN 5 ELSE 4
            ELSE 3
        ELSE 2
    ELSE IF x = Num(50 * Grid) THEN 2
    ELSE 1

toOpenWeatherAqi(x) ==
    IF IsNullish(x) \/ IsNaN(x) THEN 0
    ELSE IF AtMost(x, 50) THEN 1
    ELSE IF AtMost(x, 100) THEN 2
    ELSE IF AtMost(x, 150) THEN 3
    ELSE IF AtMost(x, 200) THEN 4
    ELSE 5

\* The values the air quality API may hand over.
Numbers == {Num(n) : n \in (0 - MaxAqi * Grid)..(MaxAqi * Grid)} \cup {Infinity, MinusInfinity}
UsAqiValues == {Null, Undefined, NaN} \cup Numbers

InitWeather ==
    /\ usAqi \in UsAqiValues
    /\ aqi = <<>>
    /\ HelperIdle
    /\ SearchIdle
    /\ RetrieveIdle

\* The call of toOpenWeatherAqi.
Convert ==
    /\ usAqi # NoArgument
    /\ aqi = <<>>
    /\ aqi' = <<toOpenWeatherAqi(usAqi)>>
    /\ UNCHANGED <<usAqi, searchVars, retrieveVars, helperVars>>

SpecWeather == InitWeather /\ [][Convert]_vars

(***************************************************************************)
(* The flight status helper of the flight tracker.  Timestamps are in      *)
(* seconds.                                                                *)
(***************************************************************************)
NowTs == 1700000000
FreshWindow == 3600
MaxSkew == 1

\* value || 0
OrZero(x) == IF x.kind = "number" THEN x.n ELSE 0

\* Faulty variant: only the position timestamp counts.
pickFlightStatusByPosition(onGround, positionTs, lastContactTs, nowTs) ==
    IF onGround = "false" THEN "in_air"
    ELSE IF onGround = "true" THEN "on_ground"
    ELSE LET freshest == OrZero(positionTs)
         IN  IF freshest > 0 /\ nowTs - freshest < FreshWindow THEN "active" ELSE "scheduled"

pickFlightStatus(onGround, positionTs, lastContactTs, nowTs) ==
    IF onGround = "false" THEN "in_air"
    ELSE IF onGround = "true" THEN "on_ground"
    ELSE LET freshest == Max(OrZero(positionTs), OrZero(lastContactTs))
         IN  IF freshest > 0 /\ nowTs - freshest < FreshWindow THEN "active" ELSE "scheduled"

\* The states of the OpenSky state vector: on_ground, and the two timestamps
\* around zero, around the edge of the window and around now.
OnGroundValues == {"true", "false", "null", "undefined"}
Instants ==
    {Num(n) : n \in (0 - MaxSkew)..MaxSkew}
        \cup {Num(NowTs - FreshWindow + d) : d \in (0 - MaxSkew)..MaxSkew}
        \cup {Num(NowTs + d) : d \in 0..MaxSkew}
TimestampValues == {Null, Undefined, NaN} \cup Instants
FlightCall(onGround, positionTs, lastContactTs, nowTs) ==
    [fn |-> "pickFlightStatus", onGround |-> onGround, positionTs |-> positionTs,
     lastContactTs |-> lastContactTs, nowTs |-> nowTs]

InitFlight ==
    /\ helperCall \in {FlightCall(g, p, l, NowTs) :
                         g \in OnGroundValues, p \in TimestampValues, l \in TimestampValues}
    /\ helperResult = <<>>
    /\ SearchIdle
    /\ RetrieveIdle
    /\ WeatherIdle

\* The call of pickFlightStatus.
PickFlightStatus ==
    /\ helperCall.fn = "pickFlightStatus"
    /\ helperResult = <<>>
    /\ helperResult' = <<pickFlightStatus(helperCall.onGround, helperCall.positionTs,
                                          helperCall.lastContactTs, helperCall.nowTs)>>
    /\ UNCHANGED <<helperCall, searchVars, retrieveVars, weatherVars>>

SpecFlight == InitFlight /\ [][PickFlightStatus]_vars

(***************************************************************************)
(* The genre mapping of the movie search tool and of its tested helper.    *)
(* A string is the sequence of its characters.                             *)
(***************************************************************************)
SmallLetters == <<"a", "b", "c", "d", "e", "f", "g", "h", "i", "j", "k", "l", "m", "n", "o", "p", "q", "r", "s", "t", "u", "v", "w", "x", "y", "z">>
CapitalLetters == <<"A", "B", "C", "D", "E", "F", "G", "H", "I", "J", "K", "L", "M", "N", "O", "P", "Q", "R", "S", "T", "U", "V", "W", "X", "Y", "Z">>

\* String.prototype.toLowerCase and toUpperCase, one character
lowerChar(c) ==
    IF \E k \in DOMAIN CapitalLetters : CapitalLetters[k] = c
    THEN SmallLetters[CHOOSE k \in DOMAIN CapitalLetters : CapitalLetters[k] = c]
    ELSE c
upperChar(c) ==
    IF \E k \in DOMAIN SmallLetters : SmallLetters[k] = c
    THEN CapitalLetters[CHOOSE k \in DOMAIN SmallLetters : SmallLetters[k] = c]
    ELSE c
toLowerCase(s) == [k \in DOMAIN s |-> lowerChar(s[k])]
toUpperCase(s) == [k \in DOMAIN s |-> upperChar(s[k])]

\* A label as the genre lists print it: every word starts with a capital.
Capitalized(s) ==
    [k \in DOMAIN s |-> IF k = 1 \/ s[k - 1] = " " THEN upperChar(s[k]) ELSE s[k]]

GenreEntry(key, id) == [key |-> key, id |-> id]

\* genreMap of mapGenreId
productionGenreMap ==
    {GenreEntry(<<"a", "c", "t", "i", "o", "n">>, 28),
     GenreEntry(<<"a", "d", "v", "e", "n", "t", "u", "r", "e">>, 12),
     GenreEntry(<<"a", "n", "i", "m", "a", "t", "i", "o", "n">>, 16),
     GenreEntry(<<"c", "o", "m", "e", "d", "y">>, 35),
     GenreEntry(<<"c", "r", "i", "m", "e">>, 80),
     GenreEntry(<<"d", "o", "c", "u", "m", "e", "n", "t", "a", "r", "y">>, 99),
     GenreEntry(<<"d", "r", "a", "m", "a">>, 18),
     GenreEntry(<<"f", "a", "m", "i", "l", "y">>, 10751),
     GenreEntry(<<"f", "a", "n", "t", "a", "s", "y">>, 14),
     GenreEntry(<<"h", "i", "s", "t", "o", "r", "y">>, 36),
     GenreEntry(<<"h", "o", "r", "r", "o", "r">>, 27),
     GenreEntry(<<"m", "u", "s", "i", "c">>, 10402),
     GenreEntry(<<"m", "y", "s", "t", "e", "r", "y">>, 9648),
     GenreEntry(<<"r", "o", "m", "a", "n", "c", "e">>, 10749),
     GenreEntry(<<"s", "c", "i", "e", "n", "c", "e", " ", "f", "i", "c", "t", "i", "o", "n">>, 878),
     GenreEntry(<<"t", "h", "r", "i", "l", "l", "e", "r">>, 53),
     GenreEntry(<<"w", "a", "r">>, 10752),
     GenreEntry(<<"w", "e", "s", "t", "e", "r", "n">>, 37)}

\* genreMap of mapGenreLabelToId
helperGenreMap ==
    {GenreEntry(<<"a", "c", "t", "i", "o", "n">>, 28),
     GenreEntry(<<"a", "d", "v", "e", "n", "t", "u", "r", "e">>, 12),
     GenreEntry(<<"a", "n", "i", "m", "a", "t", "i", "o", "n">>, 16),
     GenreEntry(<<"c", "o", "m", "e", "d", "y">>, 35),
     GenreEntry(<<"c", "r", "i", "m", "e">>, 80),
     GenreEntry(<<"d", "o", "c", "u", "m", "e", "n", "t", "a", "r", "y">>, 99),
     GenreEntry(<<"d", "r", "a", "m", "a">>, 18),
     GenreEntry(<<"f", "a", "m", "i", "l", "y">>, 10751),
     GenreEntry(<<"f", "a", "n", "t", "a", "s", "y">>, 14),
     GenreEntry(<<"h", "i", "s", "t", "o", "r", "y">>, 36),
     GenreEntry(<<"h", "o", "r", "r", "o", "r">>, 27),
     GenreEntry(<<"m", "u", "s", "i", "c">>, 10402),
     GenreEntry(<<"m", "y", "s", "t", "e", "r", "y">>, 9648),
     GenreEntry(<<"r", "o", "m", "a", "n", "c", "e">>, 10749),
     GenreEntry(<<"t", "h", "r", "i", "l", "l", "e", "r">>, 53),
     GenreEntry(<<"w", "a", "r">>, 10752),
     GenreEntry(<<"w", "e", "s", "t", "e", "r", "n">>, 37)}

\* The members every object literal inherits whose names are in small letters.
InheritedKeys == {<<"c", "o", "n", "s", "t", "r", "u", "c", "t", "o", "r">>, <<"_", "_", "p", "r", "o", "t", "o", "_", "_">>}
Inherited == [kind |-> "object"]

\* genreMap[key] || 0
Lookup(genreMap, key) ==
    IF \E e \in genreMap : e.key = key THEN Num((CHOOSE e \in genreMap : e.key = key).id)
    ELSE IF key \in InheritedKeys THEN Inherited
    ELSE Num(0)

mapGenreId(name) == Lookup(productionGenreMap, toLowerCase(name))

\* String(label || '') leaves a string as it is.
mapGenreLabelToId(label) == Lookup(helperGenreMap, toLowerCase(label))

\* The labels: the genres in small letters, as printed and in capitals, and
\* labels that are no genre.
KnownLabels ==
    UNION {{e.key, Capitalized(e.key), toUpperCase(e.key)} : e \in productionGenreMap}
OtherLabels == {<<>>, <<"U", "n", "k", "n", "o", "w", "n", " ", "L", "a", "b", "e", "l">>, <<"S", "c", "i", "-", "F", "i">>, <<"c", "o", "n", "s", "t", "r", "u", "c", "t", "o", "r">>}
Labels == KnownLabels \cup OtherLabels
GenreCall(fn, label) == [fn |-> fn, label |-> label]

InitGenre ==
    /\ helperCall \in {GenreCall(fn, label) :
                         fn \in {"mapGenreId", "mapGenreLabelToId"}, label \in Labels}
    /\ helperResult = <<>>
    /\ SearchIdle
    /\ RetrieveIdle
    /\ WeatherIdle

\* The call of mapGenreId.
MapGenreId ==
    /\ helperCall.fn = "mapGenreId"
    /\ helperResult = <<>>
    /\ helperResult' = <<mapGenreId(helperCall.label)>>
    /\ UNCHANGED <<helperCall, searchVars, retrieveVars, weatherVars>>

\* The call of mapGenreLabelToId.
MapGenreLabelToId ==
    /\ helperCall.fn = "mapGenreLabelToId"
    /\ helperResult = <<>>
    /\ helperResult' = <<mapGenreLabelToId(helperCall.label)>>
    /\ UNCHANGED <<helperCall, searchVars, retrieveVars, weatherVars>>

NextGenre == MapGenreId \/ MapGenreLabelToId
SpecGenre == InitGenre /\ [][NextGenre]_vars

(***************************************************************************)
(* The deduplicator on its own, on any list of records.                    *)
(***************************************************************************)
MaxItems == 3

\* The URLs of the records: one host under both schemes, with and without
\* a path, the host alone, another host, no URL.
DedupUrls ==
    {<<"http://", "a">>, <<"http://", "a", "/">>, <<"https://", "a">>, <<"a">>,
     <<"https://", "b">>, <<>>}
DedupItems == {[url |-> u] : u \in DedupUrls}
DedupCall(items) == [fn |-> "deduplicateByDomainAndUrl", items |-> items]

InitDedup ==
    /\ helperCall \in {DedupCall(items) : items \in SeqsUpTo(DedupItems, MaxItems)}
    /\ helperResult = <<>>
    /\ SearchIdle
    /\ RetrieveIdle
    /\ WeatherIdle

\* Faulty variant: the records are told apart by URL alone.
DeduplicateByUrl ==
    /\ helperCall.fn = "deduplicateByDomainAndUrl"
    /\ helperResult = <<>>
    /\ helperResult' = <<deduplicateByUrl(helperCall.items)>>
    /\ UNCHANGED <<helperCall, searchVars, retrieveVars, weatherVars>>

\* The call of deduplicateByDomainAndUrl.
Deduplicate ==
    /\ helperCall.fn = "deduplicateByDomainAndUrl"
    /\ helperResult = <<>>
    /\ helperResult' = <<deduplicateByDomainAndUrl(helperCall.items)>>
    /\ UNCHANGED <<helperCall, searchVars, retrieveVars, weatherVars>>

SpecDedup == InitDedup /\ [][Deduplicate]_vars

(***************************************************************************)
(* The summary derivation on its own, on texts around the limit.           *)
(***************************************************************************)
MaxBlanks == 2

\* A text of two words: blanks, a word, blanks, a word, blanks (a part of
\* length 0 is left out).
Blanks(n) == IF n = 0 THEN <<>> ELSE <<Run(Blank, n)>>
Letters(n) == IF n = 0 THEN <<>> ELSE Word(n)
Phrase(lead, first, gap, second, trail) ==
    Text(Blanks(lead) \o Letters(first) \o Blanks(gap) \o Letters(second) \o Blanks(trail))
SummaryTexts ==
    {Phrase(lead, first, gap, second, trail) :
        lead \in 0..MaxBlanks, gap \in 0..MaxBlanks, trail \in 0..1,
        first \in {0, 1, SummaryLimit - 2, SummaryLimit - 1, SummaryLimit, SummaryLimit + 1},
        second \in {0, 1}}
SummarizeCall(text) == [fn |-> "summarize", text |-> text]

InitSummarize ==
    /\ helperCall \in {SummarizeCall(text) : text \in SummaryTexts}
    /\ helperResult = <<>>
    /\ SearchIdle
    /\ RetrieveIdle
    /\ WeatherIdle

\* The call of summarize.
Summarize ==
    /\ helperCall.fn = "summarize"
    /\ helperResult = <<>>
    /\ helperResult' = <<summarize(helperCall.text)>>
    /\ UNCHANGED <<helperCall, searchVars, retrieveVars, weatherVars>>

SpecSummarize == InitSummarize /\ [][Summarize]_vars

(***************************************************************************)
(* Reading the logs.                                                       *)
(***************************************************************************)
Tasks == DOMAIN queries
Done(i) == pc[i] = "done"
Started(i) == args[i] # NoArgs
IsEvent(e) == e.kind = "event"
IsCall(e) == e.kind = "call"
Events(i) == SelectSeq(log[i], IsEvent)
IsExaCall(e) == e.kind = "call" /\ e.what = "exa"
IsSearxngCall(e) == e.kind = "call" /\ e.what = "searxng"
ExaCalls(i) == SelectSeq(log[i], IsExaCall)
SearxngCalls(i) == SelectSeq(log[i], IsSearxngCall)
Replies(i) == {e \in Range(log[i]) : e.kind = "reply"}
ExaReplies(i) == {e \in Replies(i) : e.what = "exa"}
SearxngReplies(i) == {e \in Replies(i) : e.what = "searxng"}
ExaReturned(i) == \E e \in ExaReplies(i) : e.tag = "returned"
ExaReturnedSome(i) == \E e \in ExaReplies(i) : e.tag = "returned" /\ e.count >= 1
ExaReturnedNone(i) == \E e \in ExaReplies(i) : e.tag = "returned" /\ e.count = 0
ExaRaised(i) == \E e \in ExaReplies(i) : e.tag = "raised"
SearxngRaised(i) == \E e \in SearxngReplies(i) : e.tag = "raised"
FailedOutcome(q) == [query |-> q, results |-> <<>>, images |-> <<>>, provider |-> "error"]
Expected == Min(Len(queries), 10)

NoSharedUrlOrDomain(items) ==
    \A j, k \in DOMAIN items :
        j < k => /\ items[j].url # items[k].url
                 /\ extractDomain(items[j].url) # extractDomain(items[k].url)

(***************************************************************************)
(* C1: in every SearchOutcome, of a task or of the response, no two        *)
(* records of results share a URL or a domain, and neither do two images.  *)
(***************************************************************************)
C1_DedupInvariant ==
    /\ \A i \in Tasks : /\ NoSharedUrlOrDomain(outcome[i].results)
                        /\ NoSharedUrlOrDomain(outcome[i].images)
    /\ \A k \in DOMAIN response.searches :
           /\ NoSharedUrlOrDomain(response.searches[k].results)
           /\ NoSharedUrlOrDomain(response.searches[k].images)

\* A returned outcome from which the deduplicator removed a record.
C1_Witness ==
    /\ response.returned
    /\ \E k \in DOMAIN response.searches :
           /\ \E e \in ExaReplies(k) : e.count = 2
           /\ response.searches[k].provider = "exa"
           /\ Len(response.searches[k].results) = 1

(***************************************************************************)
(* C2: when the primary returns at least one result, the outcome's         *)
(* provider is exa and the fallback is never called for that query.        *)
(***************************************************************************)
C2_PrimaryServes ==
    \A i \in Tasks :
        ExaReturnedSome(i) =>
            /\ outcome[i].provider = "exa"
            /\ SearxngCalls(i) = <<>>
            /\ response.returned => response.searches[i].provider = "exa"

C2_Witness ==
    /\ response.returned
    /\ \E i \in Tasks : ExaReturnedSome(i) /\ response.searches[i].provider = "exa"

(***************************************************************************)
(* C3: when the primary returns no result without raising, the fallback    *)
(* is called exactly once, with the query, the cap handed to the resolver  *)
(* and the category of the topic (news for news, general otherwise).       *)
(***************************************************************************)
C3_FallbackOnce ==
    \A i \in Tasks :
        ExaReturnedNone(i) =>
            SearxngCalls(i) =
                <<Call("searxng", queries[i], args[i].maxResults,
                       IF args[i].topic = "news" THEN "news" ELSE "general")>>

C3_Witness ==
    \E i \in Tasks :
        /\ Done(i)
        /\ ExaReturnedNone(i)
        /\ topics = <<"news">>
        /\ maxResults = <<1>>
        /\ outcome[i].provider = "searxng"

(***************************************************************************)
(* C4: when the primary raises, the outcome is the failed one (provider    *)
(* error, no results, no images), the fallback is not called and the       *)
(* primary is called once.                                                 *)
(***************************************************************************)
C4_PrimaryRaises ==
    \A i \in Tasks :
        ExaRaised(i) =>
            /\ outcome[i] = FailedOutcome(queries[i])
            /\ SearxngCalls(i) = <<>>
            /\ Len(ExaCalls(i)) = 1
            /\ response.returned => response.searches[i] = FailedOutcome(queries[i])

C4_Witness ==
    /\ response.returned
    /\ \E i \in Tasks : ExaRaised(i) /\ response.searches[i].provider = "error"

(***************************************************************************)
(* C5: a resolved query has the failed outcome exactly when one of its own *)
(* capability calls raised, the fallback's included.                       *)
(***************************************************************************)
C5_ExceptionsContained ==
    \A i \in Tasks :
        Done(i) =>
            /\ (ExaRaised(i) \/ SearxngRaised(i)) => outcome[i] = FailedOutcome(queries[i])
            /\ outcome[i].provider = "error" => (ExaRaised(i) \/ SearxngRaised(i))

\* The fallback of one query raised and a sibling was served.
C5_Witness ==
    /\ response.returned
    /\ \E i, j \in Tasks :
           /\ ExaReturnedNone(i) /\ SearxngRaised(i)
           /\ response.searches[i].provider = "error"
           /\ response.searches[j].provider \in {"exa", "searxng"}

(***************************************************************************)
(* C6: the response holds min(N, 10) outcomes and the outcome at position  *)
(* i carries queries[i], in every interleaving and whichever queries fail. *)
(***************************************************************************)
C6_OutcomesInInputOrder ==
    response.returned =>
        /\ Len(response.searches) = Expected
        /\ \A k \in DOMAIN response.searches : response.searches[k].query = queries[k]

C6_Witness ==
    /\ response.returned
    /\ Len(queries) > 10
    /\ \E j, k \in DOMAIN response.searches :
           /\ j < k
           /\ response.searches[j].provider = "error"
           /\ response.searches[k].provider = "exa"

(***************************************************************************)
(* C7: queries at index 10 or above are never resolved: no call, no event, *)
(* no resolver invocation; the resolver is invoked min(N, 10) times.       *)
(***************************************************************************)
C7_Truncated ==
    /\ \A i \in Tasks : i > 10 => log[i] = <<>> /\ ~Started(i) /\ pc[i] = "idle"
    /\ Cardinality({i \in Tasks : Started(i)}) <= Expected
    /\ response.returned => Cardinality({i \in Tasks : Started(i)}) = Expected

C7_Witness ==
    /\ response.returned
    /\ Len(queries) = 11
    /\ Cardinality({i \in Tasks : Started(i)}) = 10

(***************************************************************************)
(* C8 as stated: the cap handed to the resolver is 10 when none is         *)
(* supplied, and for a supplied cap lies in 1..20, a value below 1 being   *)
(* raised to 1 and a value above 20 lowered to 20.                         *)
(***************************************************************************)
C8_AsStated ==
    \A i \in Tasks :
        Started(i) =>
            /\ maxResults = <<>> => args[i].maxResults = 10
            /\ i \in DOMAIN maxResults =>
                   /\ args[i].maxResults \in 1..20
                   /\ maxResults[i] < 1 => args[i].maxResults = 1
                   /\ maxResults[i] > 20 => args[i].maxResults = 20

(***************************************************************************)
(* C8 amended: the cap handed to the resolver is 10 when none is supplied, *)
(* and for a supplied cap lies in 1..20, a negative value being raised to  *)
(* 1 and a value above 20 lowered to 20; a supplied 0 counts as not        *)
(* supplied (the first entry of the array, else 10, is clamped instead).   *)
(***************************************************************************)
C8_CapClamped ==
    \A i \in Tasks :
        Started(i) =>
            /\ maxResults = <<>> => args[i].maxResults = 10
            /\ i \in DOMAIN maxResults =>
                   /\ args[i].maxResults \in 1..20
                   /\ maxResults[i] < 0 => args[i].maxResults = 1
                   /\ maxResults[i] > 20 => args[i].maxResults = 20
                   /\ maxResults[i] = 0 =>
                          args[i].maxResults =
                              IF maxResults[1] = 0 THEN 10
                              ELSE Max(1, Min(maxResults[1], 20))

C8_Witness ==
    \E i, j, k \in Tasks :
        /\ Started(i) /\ Started(j) /\ Started(k)
        /\ i \in DOMAIN maxResults /\ maxResults[i] < 0 /\ args[i].maxResults = 1
        /\ j \in DOMAIN maxResults /\ maxResults[j] > 20 /\ args[j].maxResults = 20
        /\ k \notin DOMAIN maxResults

(***************************************************************************)
(* C9: the results of an outcome are never more than the cap handed to     *)
(* the resolver of its query, whichever provider served it.                *)
(***************************************************************************)
C9_ResultsWithinCap ==
    \A i \in Tasks : Done(i) => Len(outcome[i].results) <= args[i].maxResults

(***************************************************************************)
(* C10: a resolved query's events are one started event (zero counts, its  *)
(* index, total = min(N, 10)) and then one terminal event with the same    *)
(* index and total; the started event is the first entry of the query's    *)
(* log, before every call, and the terminal event is the last.             *)
(***************************************************************************)
C10_EventsPerQuery ==
    \A i \in Tasks :
        LET ev == Events(i)
            a == [query |-> queries[i], index |-> i - 1, total |-> Expected]
        IN  /\ pc[i] = "idle" => log[i] = <<>>
            /\ pc[i] # "idle" =>
                   /\ log[i][1] = Event("started", a, "undefined", 0, 0)
                   /\ \A k \in 2..Len(ev) : ev[k].what # "started"
            /\ pc[i] \in {"exa", "searxng"} => Len(ev) = 1
            /\ Done(i) =>
                   /\ Len(ev) = 2
                   /\ ev[2].what \in {"completed", "error"}
                   /\ ev[2].query = queries[i]
                   /\ ev[2].index = i - 1
                   /\ ev[2].total = Expected
                   /\ log[i][Len(log[i])] = ev[2]

\* A request whose queries ended one by the fallback and one by an exception.
C10_Witness ==
    /\ response.returned
    /\ \E i, j \in Tasks :
           /\ Events(i)[2].what = "completed" /\ Len(SearxngCalls(i)) = 1
           /\ Events(j)[2].what = "error"

(***************************************************************************)
(* C11: the terminal event of a resolved query carries the provider of     *)
(* the query's outcome, and counts equal to the lengths of the outcome's   *)
(* results and images.                                                     *)
(***************************************************************************)
C11_TerminalEventMatchesOutcome ==
    \A i \in Tasks :
        Done(i) =>
            LET e == log[i][Len(log[i])]
            IN  /\ e.kind = "event"
                /\ e.tag = outcome[i].provider
                /\ e.count = Len(outcome[i].results)
                /\ e.images = Len(outcome[i].images)

(***************************************************************************)
(* C12: search never raises: whatever the capabilities do, execute does    *)
(* not reject, and the response it returns holds one well-formed outcome   *)
(* per query, in which a query whose resolution met an exception is the    *)
(* outcome with empty lists and provider 'error'.                          *)
(***************************************************************************)
C12_SearchNeverRaises ==
    /\ ~response.raised
    /\ (launched = total /\ \A i \in 1..total : Done(i)) => ENABLED Return \/ response.returned
    /\ response.returned =>
           /\ Len(response.searches) = Expected
           /\ \A i \in DOMAIN response.searches :
                  LET o == response.searches[i]
                  IN  /\ o.query = queries[i]
                      /\ o.provider \in {"exa", "searxng", "error"}
                      /\ (ExaRaised(i) \/ SearxngRaised(i)) <=> o = FailedOutcome(queries[i])

\* A response in which one query failed in the primary, one in the fallback.
C12_Witness ==
    /\ response.returned
    /\ \E i, j \in DOMAIN response.searches :
           /\ ExaRaised(i) /\ response.searches[i].provider = "error"
           /\ SearxngRaised(j) /\ response.searches[j].provider = "error"

(***************************************************************************)
(* Reading the logs of retrieve.                                           *)
(***************************************************************************)
RTasks == DOMAIN urls
RDone(i) == rpc[i] = "done"
RStarted(i) == rpc[i] # "idle"
TierOrder == <<"exa", "playwright", "http">>
IsTierCall(e) == e.kind = "call"
IsTierReply(e) == e.kind = "reply"
TierCalls(i) == SelectSeq(rlog[i], IsTierCall)
TierReplies(i) == SelectSeq(rlog[i], IsTierReply)
TiersCalled(i) == [k \in DOMAIN TierCalls(i) |-> TierCalls(i)[k].tier]
Succeeded(i) == RDone(i) /\ ~settled[i].result.isNull
Successes == {i \in RTasks : Succeeded(i)}
AllTiersFailed(i) ==
    /\ RDone(i)
    /\ Len(TierReplies(i)) = 3
    /\ \A k \in 1..3 : ~TierReplies(i)[k].usable
RECURSIVE PagesOf(_)
\* The pages of the successful URLs among the indexes of a sequence, in its order.
PagesOf(order) ==
    IF order = <<>> THEN <<>>
    ELSE (IF settled[Head(order)].result.isNull THEN <<>> ELSE <<settled[Head(order)].result>>)
         \o PagesOf(Tail(order))
InputOrder == [k \in 1..Len(urls) |-> k]
Reported == IF retrieved.hasError THEN retrieved.error ELSE retrieved.partial_errors

(***************************************************************************)
(* C13: retrieve never raises: once every URL is resolved execute returns, *)
(* and its response is well formed: urls is the input list, results holds  *)
(* the page of every URL that succeeded whatever became of the others,     *)
(* sources has one entry per URL, and the error field is there exactly     *)
(* when no URL succeeded.                                                  *)
(***************************************************************************)
C13_RetrieveNeverRaises ==
    /\ (rlaunched = Len(urls) /\ \A i \in RTasks : RDone(i)) => ENABLED RReturn \/ retrieved.returned
    /\ retrieved.returned =>
           /\ retrieved.urls = urls
           /\ Len(retrieved.sources) = Len(urls)
           /\ Len(retrieved.results) = Cardinality(Successes)
           /\ \A i \in Successes : \E k \in DOMAIN retrieved.results :
                  retrieved.results[k] = settled[i].result
           /\ retrieved.hasError <=> Successes = {}
           /\ retrieved.hasPartialErrors <=> (Successes # {} /\ Successes # RTasks)

\* A response with the page of one URL while every tier of another URL raised.
C13_Witness ==
    /\ retrieved.returned
    /\ \E i, j \in RTasks :
           /\ Succeeded(i)
           /\ \A k \in 1..3 : k \in DOMAIN TierReplies(j) /\ TierReplies(j)[k].tag = "raised"
           /\ Len(retrieved.results) = 1

(***************************************************************************)
(* C14: the tiers called for a URL are a prefix of exa, playwright, http,  *)
(* each called once; a call other than the first directly follows the      *)
(* reply of the tier before it, which gave no usable text; a reply with    *)
(* usable text is the last entry of the URL's log and the outcome's source *)
(* names its tier.                                                         *)
(***************************************************************************)
C14_TiersInOrder ==
    \A i \in RTasks :
        LET l == rlog[i]
            called == TiersCalled(i)
        IN  /\ called = SubSeq(TierOrder, 1, Len(called))
            /\ \A k \in DOMAIN l :
                   /\ (k % 2 = 1) <=> l[k].kind = "call"
                   /\ l[k].kind = "reply" => l[k].tier = l[k - 1].tier
                   /\ (l[k].kind = "call" /\ k > 1) => ~l[k - 1].usable
                   /\ (l[k].kind = "reply" /\ l[k].usable) =>
                          /\ k = Len(l)
                          /\ RDone(i)
                          /\ settled[i].source = l[k].tier
                          /\ ~settled[i].result.isNull
            /\ (RDone(i) /\ settled[i].source \in Range(TierOrder)) =>
                   /\ l # <<>>
                   /\ l[Len(l)].usable
                   /\ l[Len(l)].tier = settled[i].source

\* Exa returned a blank text, the render service a usable one: the direct
\* fetch is never called.
C14_Witness ==
    \E i \in RTasks :
        /\ RDone(i)
        /\ TiersCalled(i) = <<"exa", "playwright">>
        /\ rlog[i][2] = RReply("exa", FALSE, FALSE)
        /\ settled[i].source = "playwright"

(***************************************************************************)
(* C15 as stated: an exception of a tier is followed by what follows an    *)
(* empty text of that tier, and a resolved URL that passed the validation  *)
(* has a null result only when all three tiers were called.                *)
(***************************************************************************)
RaiseIsFailure(i) ==
    \A k \in DOMAIN rlog[i] :
        LET e == rlog[i][k]
        IN  (e.kind = "reply" /\ e.tag = "raised") =>
                /\ ~e.usable
                /\ e.tier = "exa" => k < Len(rlog[i]) /\ rlog[i][k + 1] = RCall("playwright", "")
                /\ e.tier = "playwright" => k < Len(rlog[i]) /\ rlog[i][k + 1] = RCall("http", "")
                /\ e.tier = "http" =>
                       /\ k = Len(rlog[i])
                       /\ settled[i] = Extraction(urls[i], "error", NoPage, AllFailed)

C15_AsStated ==
    \A i \in RTasks :
        /\ RaiseIsFailure(i)
        /\ (RDone(i) /\ IsHttpUrl(urls[i]) /\ settled[i].result.isNull) =>
               Len(TierReplies(i)) = 3

\* The render service answered with a text that is no string.
EscapedOuterBoundary(i) ==
    /\ Len(TierReplies(i)) = 2
    /\ rlog[i][Len(rlog[i])] = RReply("playwright", FALSE, FALSE)
    /\ settled[i] = Extraction(urls[i], "error", NoPage, "TypeError")

(***************************************************************************)
(* C15: an exception of a tier is followed by what follows an empty text   *)
(* of that tier, and a resolved URL that passed the validation has a null  *)
(* result only when all three tiers were called or when an exception of    *)
(* the resolver itself reached its outer catch block.                      *)
(***************************************************************************)
C15_ExceptionsSwallowed ==
    \A i \in RTasks :
        /\ RaiseIsFailure(i)
        /\ (RDone(i) /\ IsHttpUrl(urls[i]) /\ settled[i].result.isNull) =>
               Len(TierReplies(i)) = 3 \/ EscapedOuterBoundary(i)

\* Exa and the render service raised, and the direct fetch gave the page.
C15_Witness ==
    \E i \in RTasks :
        /\ RDone(i)
        /\ Len(TierReplies(i)) = 3
        /\ TierReplies(i)[1].tag = "raised"
        /\ TierReplies(i)[2].tag = "raised"
        /\ settled[i].source = "http"

(***************************************************************************)
(* C16: for a URL without the http:// or https:// prefix no tier is ever   *)
(* called, and its resolution ends with source 'validation', a null result *)
(* and the message that names the required prefix.                         *)
(***************************************************************************)
C16_InvalidUrlRejected ==
    \A i \in RTasks :
        (urls[i] = <<>> \/ Head(urls[i]) \notin Schemes) =>
            /\ rlog[i] = <<>>
            /\ rpc[i] \in {"idle", "done"}
            /\ RDone(i) => settled[i] = Extraction(urls[i], "validation", NoPage, InvalidUrl)

C16_Witness ==
    \E i \in RTasks :
        /\ Head(urls[i]) \notin Schemes
        /\ RDone(i)
        /\ settled[i].source = "validation"

(***************************************************************************)
(* C17: a URL whose three tiers all failed, by raising or by returning no  *)
(* usable text, has the outcome with a null result, source 'error' and the *)
(* error 'All extraction methods failed'; the response has no page for it  *)
(* in results and has 'error' at its index in sources.                     *)
(***************************************************************************)
C17_AllTiersFailed ==
    \A i \in RTasks :
        AllTiersFailed(i) =>
            /\ settled[i] = Extraction(urls[i], "error", NoPage, AllFailed)
            /\ retrieved.returned =>
                   /\ retrieved.results = PagesOf(InputOrder)
                   /\ Len(retrieved.results) = Cardinality(Successes)
                   /\ i \notin Successes
                   /\ retrieved.sources[i] = "error"

\* A response for two URLs: every tier failed for one, in a mix of raising
\* and empty text, and the other has its page.
C17_Witness ==
    /\ retrieved.returned
    /\ Len(retrieved.results) = 1
    /\ \E i \in RTasks :
           /\ AllTiersFailed(i)
           /\ TierReplies(i)[1].tag = "raised"
           /\ TierReplies(i)[2].tag = "returned"

(***************************************************************************)
(* C18: in a response of retrieve sources is as long as urls, and          *)
(* sources[i] is the tier that served urls[i] when urls[i] has a page, and *)
(* 'error' when it has none.                                               *)
(***************************************************************************)
C18_SourcesPerUrl ==
    retrieved.returned =>
        /\ Len(retrieved.sources) = Len(retrieved.urls)
        /\ \A i \in RTasks :
               /\ retrieved.sources[i] # "error" <=> Succeeded(i)
               /\ Succeeded(i) => /\ retrieved.sources[i] = settled[i].source
                                  /\ retrieved.sources[i] \in Range(TierOrder)

\* A response whose sources name a tier, and 'error' for a rejected URL.
C18_Witness ==
    /\ retrieved.returned
    /\ \E i, j \in RTasks :
           /\ retrieved.sources[i] = "playwright"
           /\ retrieved.sources[j] = "error"
           /\ settled[j].source = "validation"

C20_AsStated ==
    retrieved.returned => retrieved.results = PagesOf(settleOrder)

(***************************************************************************)
(* C20: results holds the pages of the successful URLs only, in the order  *)
(* of the input list, whatever the order in which the resolutions settled. *)
(***************************************************************************)
C20_ResultsInInputOrder ==
    retrieved.returned =>
        /\ retrieved.results = PagesOf(InputOrder)
        /\ \A k \in DOMAIN retrieved.results : ~retrieved.results[k].isNull

\* The second URL settled before the first, and both have their pages.
C20_Witness ==
    /\ retrieved.returned
    /\ settleOrder = <<2, 1>>
    /\ Len(retrieved.results) = 2
    /\ retrieved.results[1] # retrieved.results[2]

RECURSIVE FailuresOf(_)
\* "<url>: <message>" of the URLs without a page among the indexes of a sequence.
FailuresOf(order) ==
    IF order = <<>> THEN <<>>
    ELSE (IF settled[Head(order)].result.isNull
          THEN <<<<urls[Head(order)], settled[Head(order)].error>>>>
          ELSE <<>>)
         \o FailuresOf(Tail(order))

(***************************************************************************)
(* C21: the response of retrieve for a list of URLs has the error field,   *)
(* holding the failures joined, exactly when no URL succeeded, and results *)
(* is then empty; it has partial_errors exactly when some URL succeeded    *)
(* and some URL failed, with one "<url>: <message>" per failed URL; it has *)
(* neither when every URL succeeded.                                       *)
(***************************************************************************)
C21_ErrorFields ==
    (retrieved.returned /\ urls # <<>>) =>
        /\ retrieved.hasError <=> Successes = {}
        /\ retrieved.hasError =>
               /\ retrieved.results = <<>>
               /\ retrieved.error = FailuresOf(InputOrder)
               /\ Len(retrieved.error) = Len(urls)
        /\ retrieved.hasPartialErrors <=> (Successes # {} /\ Successes # RTasks)
        /\ retrieved.hasPartialErrors =>
               /\ retrieved.partial_errors = FailuresOf(InputOrder)
               /\ Len(retrieved.partial_errors) = Len(urls) - Cardinality(Successes)
        /\ Successes = RTasks => ~retrieved.hasError /\ ~retrieved.hasPartialErrors

\* One URL has its page, and the other is reported in partial_errors.
C21_Witness ==
    /\ retrieved.returned
    /\ Len(urls) = 2
    /\ Len(retrieved.results) = 1
    /\ retrieved.hasPartialErrors
    /\ Len(retrieved.partial_errors) = 1

C23_SearchContentWithinLimit ==
    \A i \in Tasks :
        Done(i) =>
            \A k \in DOMAIN outcome[i].results :
                Length(outcome[i].results[k].content) <= 1000

\* Exa returned a longer text for one query and SearXNG a longer snippet for
\* another; both contents are cut to the limit.
C23_Witness ==
    \E i, j \in Tasks :
        /\ Done(i) /\ outcome[i].provider = "exa"
        /\ Done(j) /\ outcome[j].provider = "searxng"
        /\ \E k \in DOMAIN outcome[i].results :
               /\ outcome[i].results[k].url = <<"http://", "a">>
               /\ Length(outcome[i].results[k].content) = 1000
        /\ \E k \in DOMAIN outcome[j].results :
               /\ outcome[j].results[k].url = <<"http://", "a">>
               /\ Length(outcome[j].results[k].content) = 1000

(***************************************************************************)
(* C24: the content of every page retrieve returns is at most 8000         *)
(* characters long, whichever tier produced it.                            *)
(***************************************************************************)
C24_ContentWithinLimit ==
    /\ \A i \in RTasks : Succeeded(i) => Length(settled[i].result.content) <= 8000
    /\ \A k \in DOMAIN retrieved.results : Length(retrieved.results[k].content) <= 8000

(***************************************************************************)
(* C25: the description of every page retrieve returns is at most 240      *)
(* characters long, whichever tier produced it, be it the description of   *)
(* the capability or the summary of the text.                              *)
(***************************************************************************)
C25_DescriptionWithinLimit ==
    /\ \A i \in RTasks : Succeeded(i) => Length(settled[i].result.description) <= 240
    /\ \A k \in DOMAIN retrieved.results : Length(retrieved.results[k].description) <= 240

(***************************************************************************)
(* C26: when search has returned, every one of the min(N, 10) queries is   *)
(* resolved and the last entry of its log is its terminal event; when      *)
(* retrieve has returned, every URL's resolver has returned; a failed item *)
(* does not make either return before the others are done.                 *)
(***************************************************************************)
C26_SettleAllJoin ==
    /\ response.returned =>
           /\ Len(response.searches) = Expected
           /\ \A i \in 1..Expected :
                  /\ Done(i)
                  /\ log[i][Len(log[i])].kind = "event"
                  /\ log[i][Len(log[i])].what \in {"completed", "error"}
                  /\ response.searches[i] = outcome[i]
    /\ retrieved.returned =>
           /\ Len(retrieved.sources) = Len(urls)
           /\ \A i \in RTasks : RDone(i) /\ settled[i].source # "pending"

\* search returned after a query that failed at once and a query that needed
\* both capabilities.
C26_Witness ==
    /\ response.returned
    /\ \E i, j \in Tasks :
           /\ Len(log[i]) = 4
           /\ ExaRaised(i)
           /\ Len(SearxngCalls(j)) = 1
           /\ outcome[j].provider = "searxng"

\* retrieve returned after a URL that was rejected at once and a URL that
\* needed all three tiers.
C26_WitnessRetrieve ==
    /\ retrieved.returned
    /\ \E i, j \in RTasks :
           /\ settled[i].source = "validation"
           /\ Len(TierReplies(j)) = 3

(***************************************************************************)
(* The steps of one item, as functions of the item's own state, its own    *)
(* input and options, and the response to its own call.                    *)
(***************************************************************************)
QueryLocal(i) == [args |-> args[i], pc |-> pc[i], log |-> log[i], outcome |-> outcome[i]]

QueryStarted(query, index, count, cap, topic) ==
    LET a == [query |-> query, index |-> index, total |-> count,
              maxResults |-> cap, topic |-> topic]
    IN  [args |-> a, pc |-> "exa",
         log |-> <<Event("started", a, "undefined", 0, 0),
                   Call("exa", query, Max(1, Min(cap, 15)),
                        IF topic = "news" THEN "news" ELSE "undefined")>>,
         outcome |-> NoOutcome]

QueryFinished(l, provider, payload, reply) ==
    [l EXCEPT !.pc = "done",
              !.log = @ \o <<reply, Event("completed", l.args, provider,
                                          Len(payload.results), Len(payload.images))>>,
              !.outcome = [query |-> l.args.query, results |-> payload.results,
                           images |-> payload.images, provider |-> provider]]

QueryFailed(l, capability) ==
    [l EXCEPT !.pc = "done",
              !.log = @ \o <<Reply(capability, l.args, TRUE, 0, 0),
                             Event("error", l.args, "undefined", 0, 0)>>,
              !.outcome = FailedOutcome(l.args.query)]

QueryAfterExa(l, resp) ==
    LET payload == searchExa(resp)
        reply == Reply("exa", l.args, FALSE, Len(resp.results), 0)
    IN  IF payload.results = <<>>
        THEN [l EXCEPT !.pc = "searxng",
                       !.log = @ \o <<reply, Call("searxng", l.args.query, l.args.maxResults,
                                                  IF l.args.topic = "news" THEN "news"
                                                  ELSE "general")>>]
        ELSE QueryFinished(l, "exa", payload, reply)

QueryAfterSearxng(l, data) ==
    QueryFinished(l, "searxng", searchSearxng(data, l.args.maxResults),
                  Reply("searxng", l.args, FALSE, Len(data.results), Len(data.images)))

\* What a step of query i can make of the query's own state.
QuerySteps(i) ==
    LET l == QueryLocal(i)
    IN  IF l.pc = "idle"
        THEN {QueryStarted(queries[i], i - 1, Expected,
                           perQueryMax(maxResults, i - 1), topicOf(topics, i - 1))}
        ELSE IF l.pc = "exa"
        THEN {QueryAfterExa(l, resp) : resp \in PlainExaResponses}
               \cup {QueryFailed(l, "exa")}
        ELSE IF l.pc = "searxng"
        THEN {QueryAfterSearxng(l, data) : data \in PlainSearxngResponses}
               \cup {QueryFailed(l, "searxng")}
        ELSE {}

UrlLocal(i) == [args |-> rargs[i], pc |-> rpc[i], log |-> rlog[i], settled |-> settled[i]]

UrlEnded(l, reply, extraction) ==
    [l EXCEPT !.pc = "done", !.log = @ \o reply, !.settled = extraction]

UrlNextTier(l, reply, tier) ==
    [l EXCEPT !.pc = tier, !.log = @ \o <<reply, RCall(tier, "")>>]

UrlStarted(u, contentType, includeSummary, liveCrawl) ==
    LET l == [args |-> RArgs(contentType, includeSummary, liveCrawl), pc |-> "idle",
              log |-> <<>>, settled |-> NoExtraction]
    IN  IF u # <<>> /\ Head(u) \in Schemes
        THEN [l EXCEPT !.pc = "exa", !.log = <<RCall("exa", liveCrawl)>>]
        ELSE UrlEnded(l, <<>>, Extraction(u, "validation", NoPage, InvalidUrl))

UrlAfterExa(l, u, match) ==
    IF Trim(match.text) # <<>>
    THEN UrlEnded(l, <<RReply("exa", FALSE, TRUE)>>,
                  Extraction(u, "exa", Page(u, match.text, summarize(match.text)), ""))
    ELSE UrlNextTier(l, RReply("exa", FALSE, FALSE), "playwright")

UrlAfterPlaywright(l, u, payload) ==
    IF ~payload.isString
    THEN UrlEnded(l, <<RReply("playwright", FALSE, FALSE)>>,
                  Extraction(u, "error", NoPage, "TypeError"))
    ELSE IF Trim(payload.text) # <<>>
    THEN LET text == IF StartsWithMarkup(payload.text) THEN stripHtml(payload.text)
                     ELSE payload.text
         IN  UrlEnded(l, <<RReply("playwright", FALSE, TRUE)>>,
                      Extraction(u, "playwright",
                                 Page(u, SliceText(text, ContentLimit),
                                      IF payload.description # <<>> THEN payload.description
                                      ELSE summarize(text)), ""))
    ELSE UrlNextTier(l, RReply("playwright", FALSE, FALSE), "http")

UrlAfterHttp(l, u, page) ==
    LET payload == fetchViaHttp(page)
    IN  IF Trim(payload.text) # <<>>
        THEN UrlEnded(l, <<RReply("http", FALSE, TRUE)>>,
                      Extraction(u, "http",
                                 Page(u, payload.text,
                                      IF payload.description # <<>> THEN payload.description
                                      ELSE summarize(payload.text)), ""))
        ELSE UrlEnded(l, <<RReply("http", FALSE, FALSE)>>,
                      Extraction(u, "error", NoPage, AllFailed))

\* What a step of URL i can make of the URL's own state.
UrlSteps(i) ==
    LET l == UrlLocal(i)
        u == urls[i]
    IN  IF l.pc = "idle"
        THEN {UrlStarted(u, contentTypeOf(content_type, i - 1, Len(urls)),
                         includeSummaryOf(include_summary, i - 1, Len(urls)),
                         liveCrawlOf(live_crawl, i - 1, Len(urls)))}
        ELSE IF l.pc = "exa"
        THEN {UrlAfterExa(l, u, match) : match \in ExaContents}
               \cup {UrlNextTier(l, RReply("exa", TRUE, FALSE), "playwright")}
        ELSE IF l.pc = "playwright"
        THEN {UrlAfterPlaywright(l, u, payload) : payload \in PlaywrightPayloads}
               \cup {UrlNextTier(l, RReply("playwright", TRUE, FALSE), "http")}
        ELSE IF l.pc = "http"
        THEN {UrlAfterHttp(l, u, page) : page \in HttpPages}
               \cup {UrlEnded(l, <<RReply("http", TRUE, FALSE)>>,
                              Extraction(u, "error", NoPage, AllFailed))}
        ELSE {}

(***************************************************************************)
(* C27: sibling independence.  A step that changes the state of an item    *)
(* (a query or a URL: its arguments, its position, its log, its outcome)   *)
(* changes the state of no other item, and what it makes of the item's     *)
(* state is a function of that state, of the item's own input and options, *)
(* and of one response to the item's own call: whatever the siblings have  *)
(* received, raised or returned so far, and in whatever order.             *)
(***************************************************************************)
C27_SiblingIndependence ==
    [][/\ \A i \in Tasks :
              QueryLocal(i)' # QueryLocal(i) =>
                  /\ QueryLocal(i)' \in QuerySteps(i)
                  /\ \A j \in Tasks \ {i} : QueryLocal(j)' = QueryLocal(j)
       /\ \A i \in RTasks :
              UrlLocal(i)' # UrlLocal(i) =>
                  /\ UrlLocal(i)' \in UrlSteps(i)
                  /\ \A j \in RTasks \ {i} : UrlLocal(j)' = UrlLocal(j)]_vars

\* A query served by the primary beside a sibling that ended in an exception
\* before it, both having been offered the same capability.
C27_Witness ==
    \E i, j \in Tasks :
        /\ i # j
        /\ Done(i) /\ outcome[i].provider = "exa" /\ outcome[i].results # <<>>
        /\ Done(j) /\ outcome[j] = FailedOutcome(queries[j])
        /\ ExaRaised(j)

\* A URL served by a tier beside a sibling whose tiers all failed before it.
C27_WitnessRetrieve ==
    \E i, j \in RTasks :
        /\ i # j
        /\ settleOrder = <<j, i>>
        /\ Succeeded(i)
        /\ AllTiersFailed(j)

(***************************************************************************)
(* C28: when the calls of one item (here the first) may never settle while *)
(* the calls of the others do, every other query still ends with its       *)
(* terminal event and every other URL's resolver still returns; but as     *)
(* long as the first item is not resolved neither search nor retrieve      *)
(* returns, and if it never is they never do: nothing in execute bounds    *)
(* the wait.                                                               *)
(***************************************************************************)
C28_StalledItem ==
    /\ \A j \in 2..MaxQueries :
           <>(j \in Tasks => Done(j) /\ log[j][Len(log[j])].kind = "event")
    /\ \A j \in 2..MaxUrls : <>(j \in RTasks => RDone(j))
    /\ []((1 \in Tasks /\ ~Done(1)) => (~response.returned /\ ~response.raised))
    /\ []((1 \in RTasks /\ ~RDone(1)) => ~retrieved.returned)
    /\ (<>(1 \in Tasks => Done(1)) \/ []~response.returned)
    /\ (<>(1 \in RTasks => RDone(1)) \/ []~retrieved.returned)

\* The second URL has its page, the first is still waiting for Exa, and
\* retrieve has not returned.
C28_Witness ==
    /\ Len(urls) = 2
    /\ rpc[1] = "exa"
    /\ Succeeded(2)
    /\ ~retrieved.returned
    /\ ~ENABLED RReturn

\* The same for search: the second query has its terminal event.
C28_WitnessSearch ==
    /\ Len(queries) = 2
    /\ pc[1] = "exa"
    /\ Done(2)
    /\ ~response.returned
    /\ ~ENABLED Return

(***************************************************************************)
(* C29: when every capability call settles, search eventually returns      *)
(* with min(N, 10) outcomes and retrieve eventually returns with one       *)
(* sources entry per URL; a query makes at most two capability calls and a *)
(* URL at most three.                                                      *)
(***************************************************************************)
C29_Termination ==
    /\ <>(response.returned /\ Len(response.searches) = Expected)
    /\ <>(retrieved.returned /\ Len(retrieved.sources) = Len(urls))
    /\ [](\A i \in Tasks : Len(ExaCalls(i)) + Len(SearxngCalls(i)) <= 2)
    /\ [](\A i \in RTasks : Len(TierCalls(i)) <= 3)

\* retrieve has returned for two URLs, one of which made three calls.
C29_Witness ==
    /\ retrieved.returned
    /\ Len(retrieved.sources) = 2
    /\ \E i \in RTasks : Len(TierCalls(i)) = 3

\* search has returned for two queries, one of which made two calls.
C29_WitnessSearch ==
    /\ response.returned
    /\ Len(response.searches) = 2
    /\ \E i \in Tasks : Len(ExaCalls(i)) + Len(SearxngCalls(i)) = 2

\* The first item may indeed wait for ever where its calls need not settle.
FirstItemResolved == <>(1 \in RTasks => RDone(1))

(***************************************************************************)
(* C30: toOpenWeatherAqi answers 0 for null, undefined and NaN, and for    *)
(* a number 1 up to 50, 2 for 51..100, 3 for 101..150, 4 for 151..200 and  *)
(* 5 above 200; the answer is in 0..5 and no smaller number gets a larger  *)
(* answer.                                                                 *)
(***************************************************************************)
\* The place of a number in the order of the numbers.
Rank(x) ==
    CASE x.kind = "-Infinity" -> 0 - MaxAqi * Grid - 1
      [] x.kind = "Infinity" -> MaxAqi * Grid + 1
      [] OTHER -> x.n

\* The whole numbers first..last.
Whole(first, last) == {Num(v * Grid) : v \in first..last}

C30_AqiScale ==
    aqi # <<>> =>
        /\ aqi[1] \in 0..5
        /\ usAqi \in {Null, Undefined, NaN} => aqi[1] = 0
        /\ usAqi \in Numbers =>
            /\ Rank(usAqi) <= 50 * Grid => aqi[1] = 1
            /\ usAqi \in Whole(51, 100) => aqi[1] = 2
            /\ usAqi \in Whole(101, 150) => aqi[1] = 3
            /\ usAqi \in Whole(151, 200) => aqi[1] = 4
            /\ Rank(usAqi) > 200 * Grid => aqi[1] = 5
            /\ \A y \in Numbers : Rank(y) <= Rank(usAqi) => toOpenWeatherAqi(y) <= aqi[1]

C30_Witness == usAqi = Num(50 * Grid) /\ aqi = <<1>>

C30_WitnessTop == usAqi = Num(MaxAqi * Grid) /\ aqi = <<5>>

(***************************************************************************)
(* C31: pickFlightStatus answers 'in_air' when the on-ground flag is false *)
(* and 'on_ground' when it is true, whatever the timestamps; without a     *)
(* flag it answers 'active' exactly when the later of the two timestamps   *)
(* is positive and less than 3600 seconds before now, and 'scheduled'      *)
(* otherwise.                                                              *)
(***************************************************************************)
\* The timestamps of the call that are numbers.
KnownInstants == {t \in {helperCall.positionTs, helperCall.lastContactTs} : t \in Instants}
Later == CHOOSE t \in KnownInstants : \A u \in KnownInstants : u.n <= t.n
RecentlySeen ==
    /\ KnownInstants # {}
    /\ Later.n > 0
    /\ helperCall.nowTs - Later.n < 3600

C31_FlightStatus ==
    (helperCall.fn = "pickFlightStatus" /\ helperResult # <<>>) =>
        /\ helperCall.onGround = "false" => helperResult[1] = "in_air"
        /\ helperCall.onGround = "true" => helperResult[1] = "on_ground"
        /\ helperCall.onGround \in {"null", "undefined"} =>
            /\ RecentlySeen => helperResult[1] = "active"
            /\ ~RecentlySeen => helperResult[1] = "scheduled"

C31_Witness ==
    /\ helperCall = FlightCall("undefined", Num(NowTs - 3600), Num(NowTs - 3599), NowTs)
    /\ helperResult = <<"active">>

C31_WitnessFlag ==
    /\ helperCall = FlightCall("false", Null, Null, NowTs)
    /\ helperResult = <<"in_air">>

(***************************************************************************)
(* C32: the genre mapping answers the TMDB id of every genre the search    *)
(* tool knows, whatever the case of the label, and 0 for any other label;  *)
(* mapGenreLabelToId and mapGenreId answer the same for every label.       *)
(***************************************************************************)
GenreAnswered == helperCall.fn \in {"mapGenreId", "mapGenreLabelToId"} /\ helperResult # <<>>

\* The id of the genre a label names, in whatever case: 0 if it names none.
TmdbId(label) ==
    IF \E e \in productionGenreMap : toUpperCase(e.key) = toUpperCase(label)
    THEN (CHOOSE e \in productionGenreMap : toUpperCase(e.key) = toUpperCase(label)).id
    ELSE 0

C32_GenreMapping ==
    GenreAnswered =>
        /\ helperResult[1] = Num(TmdbId(helperCall.label))
        /\ helperResult[1] = mapGenreId(helperCall.label)
        /\ helperResult[1] = mapGenreLabelToId(helperCall.label)

\* The same for the labels of the genres both maps hold, and for labels
\* that name no member of an object.
InBothMaps(label) ==
    \/ \E e \in helperGenreMap : e.key = toLowerCase(label)
    \/ /\ ~\E e \in productionGenreMap : e.key = toLowerCase(label)
       /\ toLowerCase(label) \notin InheritedKeys

C32_SharedGenres ==
    (GenreAnswered /\ InBothMaps(helperCall.label)) =>
        /\ helperResult[1] = Num(TmdbId(helperCall.label))
        /\ helperResult[1] = mapGenreId(helperCall.label)
        /\ helperResult[1] = mapGenreLabelToId(helperCall.label)

C32_ScienceFiction ==
    /\ helperCall.fn = "mapGenreLabelToId"
    /\ toLowerCase(helperCall.label) = <<"s", "c", "i", "e", "n", "c", "e", " ", "f", "i", "c", "t", "i", "o", "n">>
    /\ helperResult = <<Num(0)>>

(***************************************************************************)
(* C33: every outcome of retrieve whose source is a tier (exa, playwright, *)
(* http) has content that is not empty after trimming; tier 2 succeeds     *)
(* only with a text that is not empty after the markup of an answer        *)
(* starting with '<' is stripped.                                          *)
(***************************************************************************)
C33_TierContentNonEmpty ==
    \A i \in RTasks :
        (RDone(i) /\ settled[i].source \in Range(TierOrder)) =>
            /\ ~settled[i].result.isNull
            /\ Trim(settled[i].result.content) # <<>>

\* The outcomes of tier 1 and tier 3 have content.
C33_OtherTiersNonEmpty ==
    \A i \in RTasks :
        (RDone(i) /\ settled[i].source \in {"exa", "http"}) =>
            /\ ~settled[i].result.isNull
            /\ Trim(settled[i].result.content) # <<>>

\* Tier 2 succeeds with markup only.
C33_EmptyPage ==
    \E i \in RTasks :
        /\ RDone(i)
        /\ settled[i].source = "playwright"
        /\ settled[i].result.content = <<>>

(***************************************************************************)
(* C34: the deduplicator returns the records of its input, in their order, *)
(* that share neither URL nor domain with an earlier kept record; records  *)
(* that are dropped do not count as seen.  The first record is always      *)
(* kept, and a record of a domain already kept is dropped even when its    *)
(* URL is new.                                                             *)
(***************************************************************************)
DedupAnswered == helperCall.fn = "deduplicateByDomainAndUrl" /\ helperResult # <<>>

\* The records at the positions S, in their order.
RecordsAt(items, S) ==
    LET upTo[k \in 0..Len(items)] ==
            IF k = 0 THEN <<>>
            ELSE IF k \in S THEN Append(upTo[k - 1], items[k])
            ELSE upTo[k - 1]
    IN  upTo[Len(items)]

\* The positions kept: those sharing neither URL nor domain with an earlier
\* kept position.
KeptPositions(items) ==
    LET kept[k \in 0..Len(items)] ==
            IF k = 0 THEN {}
            ELSE IF \E j \in kept[k - 1] :
                        \/ items[j].url = items[k].url
                        \/ extractDomain(items[j].url) = extractDomain(items[k].url)
                 THEN kept[k - 1]
                 ELSE kept[k - 1] \cup {k}
    IN  kept[Len(items)]

C34_FirstSeenOrder ==
    DedupAnswered =>
        LET items == helperCall.items
            kept == KeptPositions(items)
        IN  /\ helperResult[1] = RecordsAt(items, kept)
            /\ items # <<>> => helperResult[1] # <<>> /\ helperResult[1][1] = items[1]
            /\ \A k \in DOMAIN items :
                   (\E j \in kept : j < k /\ extractDomain(items[j].url) = extractDomain(items[k].url))
                       => k \notin kept

\* A record with a new URL on a domain already kept is dropped; the record
\* after it is kept.
C34_Witness ==
    /\ helperCall = DedupCall(<<[url |-> <<"http://", "a">>], [url |-> <<"http://", "a", "/">>],
                                [url |-> <<"https://", "b">>]>>)
    /\ helperResult = <<(<<[url |-> <<"http://", "a">>], [url |-> <<"https://", "b">>]>>)>>

(***************************************************************************)
(* C40: deduplicating by URL and domain is deduplicating by domain alone:  *)
(* the deduplicator returns the first record of each domain, in the order  *)
(* of the input, and deduplicating its result again changes nothing.       *)
(***************************************************************************)
\* The positions of the first record of each domain.
FirstOfDomain(items) ==
    {k \in DOMAIN items :
        \A j \in 1..(k - 1) : extractDomain(items[j].url) # extractDomain(items[k].url)}

C40_DomainAlone ==
    DedupAnswered =>
        /\ helperResult[1] = RecordsAt(helperCall.items, FirstOfDomain(helperCall.items))
        /\ deduplicateByDomainAndUrl(helperResult[1]) = helperResult[1]

\* Three URLs of one domain: only the first is left.
C40_Witness ==
    /\ helperCall = DedupCall(<<[url |-> <<"a">>], [url |-> <<"http://", "a">>],
                                [url |-> <<"https://", "a">>]>>)
    /\ helperResult = <<(<<[url |-> <<"a">>]>>)>>

(***************************************************************************)
(* C35: summarize answers 'No summary available' for the empty text;       *)
(* otherwise the text with its whitespace collapsed, as it is when that    *)
(* has at most 240 characters, and cut to exactly 240 characters ending in *)
(* the ellipsis marker when it has more; the marker is there only when     *)
(* the text was cut.                                                       *)
(***************************************************************************)
SummaryAnswered == helperCall.fn = "summarize" /\ helperResult # <<>>
Collapsed == Trim(CollapseBlanks(helperCall.text))
EndsWithEllipsis(s) == s # <<>> /\ s[Len(s)].c = "ellipsis"

C35_SummaryDerivation ==
    SummaryAnswered =>
        /\ helperCall.text = <<>> => helperResult[1] = NoSummary
        /\ (helperCall.text # <<>> /\ Length(Collapsed) <= 240) => helperResult[1] = Collapsed
        /\ (helperCall.text # <<>> /\ Length(Collapsed) > 240) =>
            /\ Length(helperResult[1]) = 240
            /\ EndsWithEllipsis(helperResult[1])
        /\ EndsWithEllipsis(helperResult[1]) => Length(Collapsed) > 240

\* What the cut summary is: the first 239 characters and a marker of three.
C35_CutSummary ==
    (SummaryAnswered /\ Length(Collapsed) > 240) =>
        /\ helperResult[1] = Text(SliceText(Collapsed, 239) \o Ellipsis)
        /\ Length(helperResult[1]) = 242

C35_LongText ==
    /\ helperCall = SummarizeCall(Word(241))
    /\ helperResult # <<>>
    /\ Length(helperResult[1]) = 242

(***************************************************************************)
(* C36: in every response of retrieve, the k-th element of results is the  *)
(* page of the k-th URL whose entry of sources is not 'error'; there are   *)
(* as many results as such entries, and the results and the reported       *)
(* failures together are as many as the URLs.                              *)
(***************************************************************************)
\* The positions of sources that are not 'error', in ascending order.
Sourced ==
    SelectSeq([k \in DOMAIN retrieved.sources |-> k],
              LAMBDA k : retrieved.sources[k] # "error")

\* The failures the response reports, each naming its URL.
ReportedFailures == {k \in DOMAIN Reported : Reported[k][1] # <<>>}

C36_ResultsFollowSources ==
    retrieved.returned =>
        /\ Len(retrieved.sources) = Len(urls)
        /\ Len(retrieved.results) = Len(Sourced)
        /\ \A k \in DOMAIN retrieved.results :
               /\ retrieved.results[k] = settled[Sourced[k]].result
               /\ retrieved.results[k].url = urls[Sourced[k]]
        /\ Len(retrieved.results) + Cardinality(ReportedFailures) = Len(urls)

\* The first URL failed: the first result is the page of the second URL.
C36_Witness ==
    /\ retrieved.returned
    /\ Len(urls) = 2
    /\ retrieved.sources[1] = "error"
    /\ retrieved.sources[2] # "error"
    /\ Len(retrieved.results) = 1
    /\ retrieved.results[1].url = urls[2]

\* Both URLs have their pages, the second settled first.
C36_WitnessBoth ==
    /\ retrieved.returned
    /\ settleOrder = <<2, 1>>
    /\ Len(retrieved.results) = 2
    /\ retrieved.results[1].url = urls[1]
    /\ retrieved.results[2].url = urls[2]

(***************************************************************************)
(* C37: in search, the started events of the min(N, 10) queries are        *)
(* emitted in ascending order of index, all of them before any terminal    *)
(* event is emitted and before any capability call has returned, in every  *)
(* interleaving.                                                           *)
(***************************************************************************)
\* A capability has answered query i, or its terminal event is emitted.
Progressed(i) ==
    \E e \in Range(log[i]) : e.kind = "reply" \/ (e.kind = "event" /\ e.what # "started")
StartedEmitted(i) == log[i] # <<>> /\ log[i][1].kind = "event" /\ log[i][1].what = "started"

C37_StartedBeforeProgress ==
    /\ []((\E i \in 1..Expected : Progressed(i)) => \A j \in 1..Expected : StartedEmitted(j))
    /\ [][\A j \in 1..Expected :
              (~StartedEmitted(j) /\ StartedEmitted(j)') =>
                  /\ \A k \in 1..(j - 1) : StartedEmitted(k)
                  /\ \A k \in (j + 1)..Expected : ~StartedEmitted(k)'
                  /\ \A k \in 1..Expected : ~Progressed(k)']_vars

\* Eleven queries: the ten started events are out and no call has returned.
C37_Witness ==
    /\ Len(queries) = 11
    /\ \A j \in 1..10 : StartedEmitted(j) /\ ~Progressed(j)
    /\ log[11] = <<>>

\* After that, the last query is the first to be answered.
C37_WitnessProgress ==
    /\ Len(queries) = 10
    /\ Progressed(10)
    /\ \A j \in 1..9 : StartedEmitted(j) /\ ~Progressed(j)

(***************************************************************************)
(* C38 as stated: an outcome tagged with the primary has at least one      *)
(* result; when the primary and then the fallback return no result without *)
(* raising, the outcome is tagged 'searxng', its lists of results and of   *)
(* images are empty and its event is 'completed'; an outcome is tagged     *)
(* 'error' only when a capability call raised.                             *)
(***************************************************************************)
SearxngReturnedNone(i) == \E e \in SearxngReplies(i) : e.tag = "returned" /\ e.count = 0
LastEntry(i) == log[i][Len(log[i])]

C38_AsStated ==
    \A i \in Tasks :
        Done(i) =>
            /\ outcome[i].provider = "exa" => Len(outcome[i].results) >= 1
            /\ (ExaReturnedNone(i) /\ SearxngReturnedNone(i)) =>
                   /\ outcome[i].provider = "searxng"
                   /\ outcome[i].results = <<>>
                   /\ outcome[i].images = <<>>
                   /\ LastEntry(i).kind = "event" /\ LastEntry(i).what = "completed"
            /\ outcome[i].provider = "error" => (ExaRaised(i) \/ SearxngRaised(i))

(***************************************************************************)
(* C38: an outcome tagged with the primary has at least one result; when   *)
(* the primary and then the fallback return no result without raising, the *)
(* outcome is tagged 'searxng', its list of results is empty, its images   *)
(* are the at most three images of the fallback's infoboxes, and its event *)
(* is 'completed' with these counts; an outcome is tagged 'error' only     *)
(* when a capability call raised.                                          *)
(***************************************************************************)
C38_ProviderTags ==
    \A i \in Tasks :
        Done(i) =>
            /\ outcome[i].provider = "exa" => Len(outcome[i].results) >= 1
            /\ (ExaReturnedNone(i) /\ SearxngReturnedNone(i)) =>
                   /\ outcome[i].provider = "searxng"
                   /\ outcome[i].results = <<>>
                   /\ Len(outcome[i].images) <= 3
                   /\ \A e \in SearxngReplies(i) : Len(outcome[i].images) <= e.images
                   /\ LastEntry(i) = Event("completed", args[i], "searxng", 0, Len(outcome[i].images))
            /\ outcome[i].provider = "error" => (ExaRaised(i) \/ SearxngRaised(i))

\* Neither capability has a result, and the fallback has nothing at all.
C38_Witness ==
    \E i \in Tasks :
        /\ Done(i)
        /\ ExaReturnedNone(i)
        /\ SearxngReturnedNone(i)
        /\ outcome[i].provider = "searxng"
        /\ outcome[i].images = <<>>

\* Neither capability has a result, and the fallback has an image.
C38_WitnessImage ==
    \E i \in Tasks :
        /\ Done(i)
        /\ ExaReturnedNone(i)
        /\ SearxngReturnedNone(i)
        /\ outcome[i].provider = "searxng"
        /\ Len(outcome[i].images) = 1

(***************************************************************************)
(* C39: in search, an entry of an option array that is missing or zero     *)
(* gives way to the first entry of the array, and only then to the         *)
(* default: the cap of query i is maxResults[i], else maxResults[0], else  *)
(* 10, clamped to 1..20, and its topic is topics[i], else topics[0], else  *)
(* general.  An option array shorter than the query list applies its       *)
(* first element to the queries beyond its end.                            *)
(***************************************************************************)
Supplied(arr, k) == k \in DOMAIN arr /\ arr[k] # 0
Clamped(x) == IF x < 1 THEN 1 ELSE IF x > 20 THEN 20 ELSE x
CapChosen(i) ==
    IF Supplied(maxResults, i) THEN maxResults[i]
    ELSE IF Supplied(maxResults, 1) THEN maxResults[1]
    ELSE 10
TopicChosen(i) ==
    IF i \in DOMAIN topics THEN topics[i]
    ELSE IF 1 \in DOMAIN topics THEN topics[1]
    ELSE "general"

C39_FirstEntryBeforeDefault ==
    \A i \in Tasks :
        Started(i) =>
            /\ args[i].maxResults = Clamped(CapChosen(i))
            /\ args[i].topic = TopicChosen(i)
            /\ (i > Len(maxResults) /\ Supplied(maxResults, 1)) =>
                   args[i].maxResults = Clamped(maxResults[1])
            /\ (i > Len(topics) /\ topics # <<>>) => args[i].topic = topics[1]

\* The third query of a request with two caps and two topics takes the
\* first cap and the first topic, neither of them the default.
C39_Witness ==
    /\ Len(queries) = 3
    /\ maxResults = <<2, 1>>
    /\ topics = <<"news", "general">>
    /\ Started(3)
    /\ args[3].maxResults = 2
    /\ args[3].topic = "news"

\* A zero cap gives way to the first cap.
C39_WitnessZero ==
    /\ maxResults = <<2, 0>>
    /\ Len(queries) >= 2
    /\ Started(2)
    /\ args[2].maxResults = 2

====
